---------------------------- MODULE Spec2Model ----------------------------
(***************************************************************************)
(* Model of gaitutils' gait cycle segmentation and normalization           *)
(* (src/gaitutils/trial.py): the Trial constructor with _scan_cycles, and   *)
(* the Gaitcycle value with normalize and crop_analog.                      *)
(*                                                                          *)
(* Frame numbers are integers.  The provider's metadata carries frame       *)
(* numbers that count from the recording's offset; a Gaitcycle holds        *)
(* 0-based frame numbers.  Floating point values that the code rounds are   *)
(* modelled exactly: IEEE doubles as bit strings where a quotient is not    *)
(* representable (toeoffn), rationals num/den where it is (samplesperframe  *)
(* with a power-of-two frame rate, the interpolation grid).                 *)
(*                                                                          *)
(* The module also models the robust statistics of src/gaitutils/numutils.py*)
(* (mad, modified_zscore, outliers) and the averaging of model curves over  *)
(* cycles and trials of src/gaitutils/stats.py (_collect_model_data and     *)
(* average_trials).                                                         *)
(***************************************************************************)
EXTENDS Integers, Sequences, FiniteSets, TLC

VARIABLES
    meta,        \* what read_data.get_metadata returned (provider's order)
    fp_detect,   \* what utils.detect_forceplate_events does: raises, or returns strikes
    status,      \* "new" before Trial.__init__, then "ok" or the exception raised
    lstrikes, rstrikes, ltoeoffs, rtoeoffs,   \* the Trial's event lists
    cycles,      \* Trial.cycles
    err,         \* where the exception was raised (NoErr when none)
    cyc_args,    \* arguments of a Gaitcycle under construction
    cyc,         \* a Gaitcycle (NoCycle before construction)
    cpc,         \* "args", "cycle", "normalized", "cropped"
    out,         \* what normalize / crop_analog returned
    nu_args,     \* arguments of a call of numutils.mad / modified_zscore / outliers
    nu_res,      \* what the call returned
    npc,         \* "args", then the name of the function called
    avg_args,    \* arguments of a call of stats.average_trials / _collect_model_data
    avg_res,     \* what the call returned, or the exception it raised
    apc,         \* "args", "collected", "averaged", "avgtrial"
    norm_cycles, \* the normalization cycle (Trial._normalize) of each trial of avg_args
    models_data, \* Trial._models_data: the model data read so far
    normalize,   \* Trial._normalize: NoNorm (None) or a Gaitcycle
    source,      \* what the provider's get_model_data does now, for each model
    reads,       \* how often the provider's get_model_data was called, for each model
    ret,         \* what the last call of a Trial method returned or raised
    cs_args,     \* the cycles argument of plot_trials
    cs_res,      \* what _handle_cyclespec or plot_trials did with it
    vpc,         \* "args", "handled", "plotted"
    del_args,    \* the trials given to _delete_c3ds, in the order of enffiles
    files,       \* the files that exist
    dpc          \* "args", then "deleted" or the exception raised

trial_vars == <<meta, fp_detect, status, lstrikes, rstrikes, ltoeoffs, rtoeoffs, cycles, err>>
cycle_vars == <<cyc_args, cyc, cpc, out>>
num_vars == <<nu_args, nu_res, npc>>
stats_vars == <<avg_args, avg_res, apc, norm_cycles>>
use_vars == <<models_data, normalize, source, reads, ret>>
viz_vars == <<cs_args, cs_res, vpc>>
del_vars == <<del_args, files, dpc>>
vars == <<meta, fp_detect, status, lstrikes, rstrikes, ltoeoffs, rtoeoffs, cycles, err,
          cyc_args, cyc, cpc, out, nu_args, nu_res, npc, avg_args, avg_res, apc,
          norm_cycles, models_data, normalize, source, reads, ret,
          cs_args, cs_res, vpc, del_args, files, dpc>>

---------------------------------------------------------------------------
(* Bounds of the model *)

\* left-side events lie on the 0-based frames 0..MaxFrame
MaxFrame == 4
\* the recording's offset (first frame number) is 0 or MaxOffset
MaxOffset == 1
\* forceplate strikes lie on the 0-based frames 0..MaxFpFrame
MaxFpFrame == 5
\* first strike of a side in the forceplate scenarios: frame 0..MaxFpStart
MaxFpStart == 1
\* a single Gaitcycle lies within the 0-based frames 0..MaxCycleFrame
MaxCycleFrame == 4
\* analog rate 1..MaxRate
MaxRate == 3
\* model variables take the values 0 and MaxVal
MaxVal == 2
\* cycle lengths 2..MaxLen for the normalized toe-off
MaxLen == 40

\* program constant: tolerance for matching forceplate strikes (frames)
STRIKE_TOL == 4

NoErr == [kind |-> "none", side |-> 0, start |-> 0]
NoCycle == [context |-> "none"]

---------------------------------------------------------------------------
(* Generic helpers *)

Abs(x) == IF x < 0 THEN -x ELSE x

RECURSIVE Reverse(_)
Reverse(s) == IF s = <<>> THEN <<>> ELSE Append(Reverse(Tail(s)), Head(s))

\* Python's [x for x in li if lo < x < hi]
RECURSIVE Between(_, _, _)
Between(li, lo, hi) ==
    IF li = <<>> THEN <<>>
    ELSE IF Head(li) > lo /\ Head(li) < hi
         THEN <<Head(li)>> \o Between(Tail(li), lo, hi)
         ELSE Between(Tail(li), lo, hi)

\* list.sort(): ascending, by insertion
RECURSIVE Insert(_, _)
Insert(x, s) ==
    IF s = <<>> THEN <<x>>
    ELSE IF x <= Head(s) THEN <<x>> \o s
         ELSE <<Head(s)>> \o Insert(x, Tail(s))

RECURSIVE InsertionSort(_)
InsertionSort(li) ==
    IF li = <<>> THEN <<>> ELSE Insert(Head(li), InsertionSort(Tail(li)))

Unsorted(li) == li

SortList(li) == InsertionSort(li)


---------------------------------------------------------------------------
(* Rounding.  Python 2's round() rounds half away from zero. *)

\* round(num/den) of the exact rational num/den, den > 0
RoundHalfAway(num, den) ==
    IF num >= 0 THEN (2 * num + den) \div (2 * den)
    ELSE -((2 * (-num) + den) \div (2 * den))

---------------------------------------------------------------------------
(* IEEE-754 doubles, as far as Gaitcycle needs them.  A positive double is  *)
(* [top, limbs, z]: its 53-bit significand is top * 2^52 + the number whose  *)
(* four 13-bit limbs are limbs (least significant first), and its value is   *)
(* that significand / 2^(z + 53); z is negative for values of 2 and more.    *)
(* After a multiplication top holds the bits above the 52 limb bits.         *)

LimbBase == 2 ^ 13

RECURSIVE Pow2(_)
Pow2(n) == IF n <= 0 THEN 1 ELSE 2 * Pow2(n - 1)

\* floor(log2(n)) for n >= 1
RECURSIVE Log2(_)
Log2(n) == IF n < 2 THEN 0 ELSE 1 + Log2(n \div 2)

\* number of leading zero fraction bits of a/b, 0 < a < b
RECURSIVE LeadZeros(_, _)
LeadZeros(a, b) == IF 2 * a >= b THEN 0 ELSE 1 + LeadZeros(2 * a, b)

\* limbs + 1: [limbs, carry]
RECURSIVE IncLimbs(_)
IncLimbs(limbs) ==
    IF limbs = <<>> THEN [limbs |-> <<>>, carry |-> 1]
    ELSE IF Head(limbs) + 1 < LimbBase
         THEN [limbs |-> <<Head(limbs) + 1>> \o Tail(limbs), carry |-> 0]
         ELSE LET rest == IncLimbs(Tail(limbs))
              IN  [limbs |-> <<0>> \o rest.limbs, carry |-> rest.carry]

\* the next n limbs of the quotient r/b (long division), and the remainder
RECURSIVE DivLimbs(_, _, _, _)
DivLimbs(r, b, n, acc) ==
    IF n = 0 THEN [limbs |-> acc, rem |-> r]
    ELSE DivLimbs((r * LimbBase) % b, b, n - 1, <<(r * LimbBase) \div b>> \o acc)

\* the quotient of DivDouble once scaled: aa / bb with bb <= aa < 2 * bb,
\* rounded to 53 bits (ties to even)
DivScaled(aa, bb, z) ==
    LET q  == DivLimbs(aa - bb, bb, 4, <<>>)
        up == 2 * q.rem > bb \/ (2 * q.rem = bb /\ q.limbs[1] % 2 = 1)
        qi == IncLimbs(q.limbs)
    IN  IF up THEN [top |-> 1 + qi.carry, limbs |-> qi.limbs, z |-> z]
        ELSE [top |-> 1, limbs |-> q.limbs, z |-> z]

\* a / b for 0 < a, b < 2^18, rounded to the nearest double (ties to even)
DivDouble(a, b) ==
    IF a < b
    THEN DivScaled(a * Pow2(LeadZeros(a, b) + 1), b, LeadZeros(a, b))
    ELSE DivScaled(a, b * Pow2(Log2(a \div b)), -(1 + Log2(a \div b)))

\* limbs * m + c: [limbs, carry]
RECURSIVE MulLimbs(_, _, _)
MulLimbs(limbs, m, c) ==
    IF limbs = <<>> THEN [limbs |-> <<>>, carry |-> c]
    ELSE LET p    == Head(limbs) * m + c
             rest == MulLimbs(Tail(limbs), m, p \div LimbBase)
         IN  [limbs |-> <<p % LimbBase>> \o rest.limbs, carry |-> rest.carry]

\* a + b + c for limb sequences a, b of one length: [limbs, carry]
RECURSIVE AddLimbs(_, _, _)
AddLimbs(a, b, c) ==
    IF a = <<>> THEN [limbs |-> <<>>, carry |-> c]
    ELSE LET s    == Head(a) + Head(b) + c
             rest == AddLimbs(Tail(a), Tail(b), s \div LimbBase)
         IN  [limbs |-> <<s % LimbBase>> \o rest.limbs, carry |-> rest.carry]

\* limbs * m for 1 <= m < 2^30: [limbs, carry]; a multiplier of 2^17 and
\* more is split in two so that no partial product leaves 32 bits
MulWide(limbs, m) ==
    IF m < Pow2(17) THEN MulLimbs(limbs, m, 0)
    ELSE LET lo  == MulLimbs(limbs, m % LimbBase, 0)
             hi  == MulLimbs(limbs, m \div LimbBase, 0)
             sum == AddLimbs(lo.limbs, <<0>> \o SubSeq(hi.limbs, 1, 3), 0)
         IN  [limbs |-> sum.limbs,
              carry |-> lo.carry + hi.limbs[4] + hi.carry * LimbBase + sum.carry]

\* the d lowest bits of limbs, d <= 30
RECURSIVE LowBits(_, _)
LowBits(limbs, d) ==
    IF d <= 0 THEN 0
    ELSE IF d <= 13 THEN Head(limbs) % Pow2(d)
    ELSE Head(limbs) + LimbBase * LowBits(Tail(limbs), d - 13)

\* limbs with the d lowest bits cleared
RECURSIVE ClearLow(_, _)
ClearLow(limbs, d) ==
    IF d <= 0 THEN limbs
    ELSE IF d >= 13 THEN <<0>> \o ClearLow(Tail(limbs), d - 13)
    ELSE <<(Head(limbs) \div Pow2(d)) * Pow2(d)>> \o Tail(limbs)

\* limbs + 2^d, d < 52: [limbs, carry]
RECURSIVE AddBit(_, _)
AddBit(limbs, d) ==
    IF d >= 13
    THEN LET rest == AddBit(Tail(limbs), d - 13)
         IN  [limbs |-> <<Head(limbs)>> \o rest.limbs, carry |-> rest.carry]
    ELSE IF Head(limbs) + Pow2(d) < LimbBase
         THEN [limbs |-> <<Head(limbs) + Pow2(d)>> \o Tail(limbs), carry |-> 0]
         ELSE LET rest == IncLimbs(Tail(limbs))
              IN  [limbs |-> <<Head(limbs) + Pow2(d) - LimbBase>> \o rest.limbs,
                   carry |-> rest.carry]

\* the product p (limbs and the bits top above them) rounded to 53 bits
\* (ties to even): the d = floor(log2(top)) lowest bits are dropped
RoundProduct(p, top, z) ==
    LET d    == Log2(top)
        low  == LowBits(p.limbs, d)
        odd  == (p.limbs[(d \div 13) + 1] \div Pow2(d % 13)) % 2 = 1
        up   == d > 0 /\ (low > Pow2(d - 1) \/ (low = Pow2(d - 1) /\ odd))
        kept == ClearLow(p.limbs, d)
        inc  == AddBit(kept, d)
    IN  IF up THEN [top |-> top + inc.carry, limbs |-> inc.limbs, z |-> z]
        ELSE [top |-> top, limbs |-> kept, z |-> z]

\* m * x for a double x and a whole number 1 <= m < 2^30, rounded to the
\* nearest double
MulDouble(x, m) ==
    RoundProduct(MulWide(x.limbs, m), x.top * m + MulWide(x.limbs, m).carry, x.z)

\* the n highest bits of the 52 bits held by limbs
RECURSIVE HighBits(_, _)
HighBits(limbs, n) ==
    IF n <= 0 \/ limbs = <<>> THEN 0
    ELSE IF n <= 13 THEN limbs[Len(limbs)] \div Pow2(13 - n)
    ELSE limbs[Len(limbs)] * Pow2(n - 13)
         + HighBits(SubSeq(limbs, 1, Len(limbs) - 1), n - 13)

\* floor(2 * x) of a positive double x
FloorTwice(x) ==
    IF x.z > 0 THEN x.top \div Pow2(x.z)
    ELSE x.top * Pow2(-x.z) + HighBits(x.limbs, -x.z)

\* Python 2 round(x) of a positive double x: half away from zero
RoundDouble(x) == (FloorTwice(x) \div 2) + (FloorTwice(x) % 2)

\* round(n * (num / den)) for whole n and num, den > 0, as doubles: the
\* quotient is rounded to a double, then the product
RoundTimes(n, num, den) ==
    IF n = 0 THEN 0
    ELSE IF n > 0 THEN RoundDouble(MulDouble(DivDouble(num, den), n))
    ELSE -RoundDouble(MulDouble(DivDouble(num, den), -n))

\* round(100*((toeoff - start) / len)) as the code evaluates it, for
\* a = toeoff - start and b = len > 0: the quotient is rounded to a double
\* before it is multiplied by 100
ToeoffNorm(a, b) ==
    IF a = 0 THEN 0
    ELSE IF a > 0 THEN RoundDouble(MulDouble(DivDouble(a, b), 100))
    ELSE -RoundDouble(MulDouble(DivDouble(-a, b), 100))

---------------------------------------------------------------------------
(* Gaitcycle *)

\* the attributes that Gaitcycle.__init__ sets (lines 28-50), start_smp and
\* end_smp being the rounded products of line 40 and 41
CycleFields(start, end, offset, toeoff, context, on_forceplate, start_smp, end_smp) ==
    [offset        |-> offset,
     len           |-> end - start,
     start         |-> start - offset,
     end           |-> end - offset,
     toeoff        |-> toeoff - offset,
     context       |-> context,
     on_forceplate |-> on_forceplate,
     start_smp     |-> start_smp,
     end_smp       |-> end_smp,
     len_smp       |-> end_smp - start_smp,
     toeoffn       |-> ToeoffNorm((toeoff - offset) - (start - offset), end - start)]

\* Gaitcycle.__init__.  spf is samplesperframe, the double nearest to the
\* rational [num, den].  The axes t, tn_analog and tn are functions of len
\* and len_smp alone: CycleT, CycleTnAnalog and CycleTn.  np.linspace
\* raises ValueError for a negative len (line 44), and the division by a len
\* of zero raises ZeroDivisionError (line 50).
Gaitcycle(start, end, offset, toeoff, context, on_forceplate, spf) ==
    IF end < start THEN [raises |-> "ValueError"]
    ELSE IF end = start THEN [raises |-> "ZeroDivisionError"]
    ELSE CycleFields(start, end, offset, toeoff, context, on_forceplate,
                     RoundTimes(start - offset, spf.num, spf.den),
                     RoundTimes(end - offset, spf.num, spf.den))

---------------------------------------------------------------------------
(* Trial._scan_cycles *)

\* min(np.abs(fp_strikes - start + offset)) for a non-empty fp_strikes
RECURSIVE MinDiff(_, _, _)
MinDiff(fp_strikes, start, offset) ==
    LET d == Abs(Head(fp_strikes) - start + offset)
    IN  IF Len(fp_strikes) = 1 THEN d
        ELSE LET m == MinDiff(Tail(fp_strikes), start, offset)
             IN  IF d < m THEN d ELSE m

OnForceplateNoOffset(fp_strikes, start, offset) ==
    IF fp_strikes = <<>> THEN FALSE
    ELSE MinDiff(fp_strikes, start, 0) <= STRIKE_TOL

\* whether the cycle starts on a forceplate strike (lines 214-220)
OnForceplate(fp_strikes, start, offset) ==
    IF fp_strikes = <<>> THEN FALSE
    ELSE MinDiff(fp_strikes, start, offset) <= STRIKE_TOL

\* the side of a strike list: the comparison strikes == self.lstrikes is a
\* comparison of the lists' values
SideContext(strikes, ls) == IF strikes = ls THEN "L" ELSE "R"

ShortSideRaises(acc, side) ==
    [status |-> "GaitDataError", cycles |-> <<>>,
     err |-> [kind |-> "Too few strikes", side |-> side, start |-> 0]]

\* len_s < 2: the generator returns, with the cycles found so far
ShortSide(acc, side) == [status |-> "ok", cycles |-> acc, err |-> NoErr]

\* the loop over k of one strike list, from index k (1-based) on;
\* side is 1 for the iteration over lstrikes, 2 for the one over rstrikes
RECURSIVE ScanSide(_, _, _, _, _, _, _, _, _)
ScanSide(strikes, toeoffs, context, side, k, acc, offset, fp, spf) ==
    IF k > Len(strikes) - 1
    THEN [status |-> "ok", cycles |-> acc, err |-> NoErr]
    ELSE LET start == strikes[k]
             end   == strikes[k + 1]
             toeoff == Between(toeoffs, start, end)
         IN  IF fp.raises
             \* fp_events is None: subscripting it raises TypeError
             THEN [status |-> "TypeError", cycles |-> <<>>,
                   err |-> [kind |-> "fp_events is None", side |-> side, start |-> start]]
             ELSE IF Len(toeoff) = 0
             THEN [status |-> "GaitDataError", cycles |-> <<>>,
                   err |-> [kind |-> "No toeoff", side |-> side, start |-> start]]
             ELSE IF Len(toeoff) > 1
             THEN [status |-> "GaitDataError", cycles |-> <<>>,
                   err |-> [kind |-> "Multiple toeoffs", side |-> side, start |-> start]]
             ELSE ScanSide(strikes, toeoffs, context, side, k + 1,
                           Append(acc, Gaitcycle(start, end, offset, toeoff[1], context,
                                                 OnForceplate(IF context = "L" THEN fp.L_strikes
                                                              ELSE fp.R_strikes, start, offset),
                                                 spf)),
                           offset, fp, spf)

\* the loop over [self.lstrikes, self.rstrikes], from iteration side on
RECURSIVE ScanFrom(_, _, _, _, _, _, _, _, _)
ScanFrom(side, acc, ls, rs, lt, rt, offset, fp, spf) ==
    IF side > 2 THEN [status |-> "ok", cycles |-> acc, err |-> NoErr]
    ELSE LET strikes == IF side = 1 THEN ls ELSE rs
             context == SideContext(strikes, ls)
             toeoffs == IF context = "L" THEN lt ELSE rt
         IN  IF Len(strikes) < 2 THEN ShortSide(acc, side)
             ELSE LET r == ScanSide(strikes, toeoffs, context, side, 1, acc, offset, fp, spf)
                  IN  IF r.status # "ok" THEN r
                      ELSE ScanFrom(side + 1, r.cycles, ls, rs, lt, rt, offset, fp, spf)

\* list(self._scan_cycles())
ScanCycles(ls, rs, lt, rt, offset, fp, spf) ==
    ScanFrom(1, <<>>, ls, rs, lt, rt, offset, fp, spf)

---------------------------------------------------------------------------
(* Trial.__init__ *)

Samplesperframe(m) == [num |-> m.analograte, den |-> m.framerate]

\* the outcome of constructing a Trial from metadata m and forceplate
\* detection fp: the lists are sorted, then the cycles scanned
TrialOutcome(m, fp) ==
    ScanCycles(SortList(m.lstrikes), SortList(m.rstrikes),
               SortList(m.ltoeoffs), SortList(m.rtoeoffs),
               m.offset, fp, Samplesperframe(m))

TrialInit ==
    /\ status = "new"
    /\ lstrikes' = SortList(meta.lstrikes)
    /\ rstrikes' = SortList(meta.rstrikes)
    /\ ltoeoffs' = SortList(meta.ltoeoffs)
    /\ rtoeoffs' = SortList(meta.rtoeoffs)
    /\ LET r == ScanCycles(lstrikes', rstrikes', ltoeoffs', rtoeoffs',
                           meta.offset, fp_detect, Samplesperframe(meta))
       IN  /\ status' = r.status
           /\ cycles' = r.cycles
           /\ err' = r.err
    /\ UNCHANGED <<meta, fp_detect, cyc_args, cyc, cpc, out>>
    /\ UNCHANGED <<num_vars, stats_vars>>
    /\ UNCHANGED <<use_vars, viz_vars, del_vars>>

---------------------------------------------------------------------------
(* The provider's deliveries: what read_data.get_metadata and               *)
(* utils.detect_forceplate_events hand to Trial.__init__.  The event lists  *)
(* may arrive in any order.                                                  *)

\* utils.detect_forceplate_events: it raises GaitDataError (raises = TRUE), or
\* returns the forceplate strikes of each side as 0-based frame numbers
NoFp == [raises |-> FALSE, L_strikes |-> <<>>, R_strikes |-> <<>>]

\* the frames f..maxf (0-based) that the slot map m marks with kind, as an
\* ascending list of frame numbers counted from offset
RECURSIVE SlotList(_, _, _, _, _)
SlotList(m, kind, f, maxf, offset) ==
    IF f > maxf THEN <<>>
    ELSE IF m[f] = kind THEN <<f + offset>> \o SlotList(m, kind, f + 1, maxf, offset)
         ELSE SlotList(m, kind, f + 1, maxf, offset)

\* the order in which the provider delivers a list
Deliver(li, order) ==
    IF order = "desc" THEN Reverse(li)
    ELSE IF order = "rot" /\ li # <<>> THEN Append(Tail(li), Head(li))
    ELSE li

Offsets == {0, MaxOffset}
RightMaxFrame == MaxFrame - 2

\* every frame of a side holds a strike, a toe-off or nothing
TrialMetas ==
    { [lstrikes   |-> Deliver(SlotList(l, "S", 0, MaxFrame, o), ord),
       ltoeoffs   |-> Deliver(SlotList(l, "T", 0, MaxFrame, o), ord),
       rstrikes   |-> Deliver(SlotList(r, "S", 0, RightMaxFrame, o), ord),
       rtoeoffs   |-> Deliver(SlotList(r, "T", 0, RightMaxFrame, o), ord),
       offset     |-> o,
       analograte |-> 3,
       framerate  |-> 2] :
      l \in [0..MaxFrame -> {"-", "S", "T"}],
      r \in [0..RightMaxFrame -> {"-", "S", "T"}],
      o \in {MaxOffset},
      ord \in {"asc", "desc"} }

NoTrial ==
    /\ status = "none"
    /\ meta = [offset |-> 0]
    /\ fp_detect = NoFp
    /\ lstrikes = <<>> /\ rstrikes = <<>> /\ ltoeoffs = <<>> /\ rtoeoffs = <<>>
    /\ cycles = <<>>
    /\ err = NoErr

NoNumutils ==
    /\ nu_args = [fn |-> "none"]
    /\ nu_res = <<>>
    /\ npc = "none"

NoStats ==
    /\ avg_args = [trials |-> <<>>]
    /\ avg_res = <<>>
    /\ apc = "none"
    /\ norm_cycles = <<>>

\* Trial._normalize = None
NoNorm == [none |-> TRUE]
ANorm(cycle) == [none |-> FALSE, cycle |-> cycle]

NoTrialUse ==
    /\ models_data = <<>>
    /\ normalize = NoNorm
    /\ source = <<>>
    /\ reads = <<>>
    /\ ret = [call |-> "none"]

NoPlot ==
    /\ cs_args = [kind |-> "none"]
    /\ cs_res = <<>>
    /\ vpc = "none"

NoDelete ==
    /\ del_args = <<>>
    /\ files = {}
    /\ dpc = "none"

NoGaitcycle ==
    /\ cyc_args = [start |-> 0]
    /\ cyc = NoCycle
    /\ cpc = "none"
    /\ out = <<>>

Init ==
    /\ meta \in TrialMetas
    /\ fp_detect = NoFp
    /\ status = "new"
    /\ lstrikes = <<>> /\ rstrikes = <<>> /\ ltoeoffs = <<>> /\ rtoeoffs = <<>>
    /\ cycles = <<>>
    /\ err = NoErr
    /\ NoGaitcycle
    /\ NoNumutils
    /\ NoStats
    /\ NoTrialUse
    /\ NoPlot
    /\ NoDelete

Next == TrialInit

Spec == Init /\ [][Next]_vars

\* forceplate detection: it raises, or returns per side an ascending list
\* of at most two 0-based strike frames in 0..MaxFpFrame
FpLists ==
    {<<>>} \cup { <<f>> : f \in 0..MaxFpFrame }
           \cup { p \in (0..MaxFpFrame) \X (0..MaxFpFrame) : p[1] < p[2] }

FpDetections ==
    { [raises |-> TRUE, L_strikes |-> <<>>, R_strikes |-> <<>>] }
    \cup { [raises |-> FALSE, L_strikes |-> l, R_strikes |-> r] : l \in FpLists, r \in FpLists }

\* a side's events: none, or one or two well-formed cycles that start at
\* frame s (0-based) and last two frames each
SidePatterns(o) ==
    { [strikes |-> <<>>, toeoffs |-> <<>>] }
    \cup { [strikes |-> <<s + o, s + 2 + o>>, toeoffs |-> <<s + 1 + o>>] : s \in 0..MaxFpStart }
    \cup { [strikes |-> <<s + o, s + 2 + o, s + 4 + o>>,
            toeoffs |-> <<s + 1 + o, s + 3 + o>>] : s \in 0..MaxFpStart }

FpMetas ==
    UNION { { [lstrikes   |-> l.strikes, ltoeoffs |-> l.toeoffs,
               rstrikes   |-> r.strikes, rtoeoffs |-> r.toeoffs,
               offset     |-> o,
               analograte |-> 3,
               framerate  |-> 2] : l \in SidePatterns(o), r \in SidePatterns(o) } :
            o \in {MaxOffset} }

InitFp ==
    /\ meta \in FpMetas
    /\ fp_detect \in FpDetections
    /\ status = "new"
    /\ lstrikes = <<>> /\ rstrikes = <<>> /\ ltoeoffs = <<>> /\ rtoeoffs = <<>>
    /\ cycles = <<>>
    /\ err = NoErr
    /\ NoGaitcycle
    /\ NoNumutils
    /\ NoStats
    /\ NoTrialUse
    /\ NoPlot
    /\ NoDelete

SpecFp == InitFp /\ [][Next]_vars

---------------------------------------------------------------------------
(* Gaitcycle.normalize and Gaitcycle.crop_analog.  Axis points and          *)
(* interpolated values are exact rationals [num, den], den > 0, in lowest   *)
(* terms.                                                                    *)

RECURSIVE GCD(_, _)
GCD(a, b) == IF b = 0 THEN a ELSE GCD(b, a % b)

Rat(num, den) ==
    LET g == GCD(Abs(num), den)
    IN  [num |-> num \div g, den |-> den \div g]

RatLeq(x, y) == x.num * y.den <= y.num * x.den

\* np.linspace(a, b, n)
Linspace(a, b, n) ==
    [j \in 1..n |-> IF n = 1 THEN Rat(a, 1)
                    ELSE Rat(a * (n - 1) + (b - a) * (j - 1), n - 1)]

\* Gaitcycle.t, .tn_analog, .tn (lines 44-48)
CycleT(c) == Linspace(0, 100, c.len)
CycleTnAnalog(c) == Linspace(0, 100, c.len_smp)
CycleTn == Linspace(0, 100, 101)

\* Python's var[a:b] for 0 <= a, of a 0-based array held as a sequence
Slice(var, a, b) ==
    LET hi == IF b < Len(var) THEN b ELSE Len(var)
    IN  IF a >= hi THEN <<>> ELSE SubSeq(var, a + 1, hi)

\* np.interp(x, xp, fp) at one point x, for increasing xp: fp at the ends
\* and beyond, linear between neighbouring points
InterpAt(x, xp, fp) ==
    LET n == Len(xp)
    IN  IF RatLeq(x, xp[1]) THEN Rat(fp[1], 1)
        ELSE IF RatLeq(xp[n], x) THEN Rat(fp[n], 1)
        ELSE LET j  == CHOOSE k \in 1..(n - 1) : RatLeq(xp[k], x) /\ ~RatLeq(xp[k + 1], x)
                 \* (x - xp[j]) / (xp[j+1] - xp[j]) = wn / wd
                 wn == (x.num * xp[j].den - xp[j].num * x.den) * xp[j + 1].den
                 wd == (xp[j + 1].num * xp[j].den - xp[j].num * xp[j + 1].den) * x.den
             IN  Rat(fp[j] * wd + (fp[j + 1] - fp[j]) * wn, wd)

InterpNearestLeft(x, xp, fp) ==
    LET n == Len(xp)
    IN  IF RatLeq(x, xp[1]) THEN Rat(fp[1], 1)
        ELSE IF RatLeq(xp[n], x) THEN Rat(fp[n], 1)
        ELSE Rat(fp[CHOOSE k \in 1..(n - 1) : RatLeq(xp[k], x) /\ ~RatLeq(xp[k + 1], x)], 1)

Interp(x, xp, fp) == InterpAt(x, xp, fp)

\* Gaitcycle.normalize(var): (tn, np.interp(tn, t, var[start:end]))
Normalize(c, var) ==
    LET t    == CycleT(c)
        crop == Slice(var, c.start, c.end)
    IN  [t    |-> CycleTn,
         data |-> [i \in 1..Len(CycleTn) |-> Interp(CycleTn[i], t, crop)]]

CropAnalogOneMore(c, var) ==
    [t |-> CycleTnAnalog(c), data |-> Slice(var, c.start_smp, c.end_smp + 1)]

\* Gaitcycle.crop_analog(var): (tn_analog, var[start_smp:end_smp])
CropAnalog(c, var) ==
    [t |-> CycleTnAnalog(c), data |-> Slice(var, c.start_smp, c.end_smp)]

\* the constructor call of _scan_cycles, on the arguments cyc_args
NewGaitcycle ==
    /\ cpc = "args"
    /\ cyc' = Gaitcycle(cyc_args.start, cyc_args.end, cyc_args.offset, cyc_args.toeoff,
                        cyc_args.context, cyc_args.on_forceplate, cyc_args.spf)
    /\ cpc' = "cycle"
    /\ UNCHANGED <<cyc_args, out>>
    /\ UNCHANGED <<trial_vars, num_vars, stats_vars>>
    /\ UNCHANGED <<use_vars, viz_vars, del_vars>>

\* model variables of a trial of length frames: every array over Vals
Vals == {0, MaxVal}
ModelVars(length) == [1..length -> Vals]

\* analog variables of n samples: the sample numbers, and an alternation
AnalogVars(n) == { [i \in 1..n |-> i - 1], [i \in 1..n |-> (i - 1) % 2] }

DoNormalize ==
    /\ cpc = "cycle"
    /\ \E var \in ModelVars(cyc_args.length) :
           out' = [var |-> var] @@ Normalize(cyc, var)
    /\ cpc' = "normalized"
    /\ UNCHANGED <<cyc_args, cyc>>
    /\ UNCHANGED <<trial_vars, num_vars, stats_vars>>
    /\ UNCHANGED <<use_vars, viz_vars, del_vars>>

DoCropAnalog ==
    /\ cpc = "cycle"
    /\ \E var \in AnalogVars((cyc_args.length * cyc_args.spf.num) \div cyc_args.spf.den + 1) :
           out' = [var |-> var] @@ CropAnalog(cyc, var)
    /\ cpc' = "cropped"
    /\ UNCHANGED <<cyc_args, cyc>>
    /\ UNCHANGED <<trial_vars, num_vars, stats_vars>>
    /\ UNCHANGED <<use_vars, viz_vars, del_vars>>

\* sampling rates with frame rate 1 or 2: samplesperframe and its products
\* with frame numbers are then exact as doubles
Rates == { [num |-> a, den |-> f] : a \in 1..MaxRate, f \in {1, 2} }

\* constructor arguments as _scan_cycles passes them: strike, toe-off and
\* next strike counted from the offset, start < toeoff < end
CycleArgs ==
    { [start |-> f[1] + o, toeoff |-> f[2] + o, end |-> f[3] + o, offset |-> o,
       context |-> "L", on_forceplate |-> FALSE, spf |-> r,
       length |-> MaxCycleFrame + 1] :
      f \in { g \in (0..MaxCycleFrame) \X (0..MaxCycleFrame) \X (0..MaxCycleFrame) :
                 g[1] < g[2] /\ g[2] < g[3] },
      o \in Offsets, r \in { q \in Rates : q.num >= q.den } }

InitCycle ==
    /\ NoTrial
    /\ cyc_args \in CycleArgs
    /\ cyc = NoCycle
    /\ cpc = "args"
    /\ out = <<>>
    /\ NoNumutils
    /\ NoStats
    /\ NoTrialUse
    /\ NoPlot
    /\ NoDelete

NextCycle == NewGaitcycle \/ DoNormalize \/ DoCropAnalog

SpecCycle == InitCycle /\ [][NextCycle]_vars

\* cycles of up to MaxLen frames, for the normalized toe-off
LongCycleArgs ==
    { [start |-> o, toeoff |-> f[1] + o, end |-> f[2] + o, offset |-> o,
       context |-> "L", on_forceplate |-> FALSE, spf |-> [num |-> 1, den |-> 1],
       length |-> f[2] + 1] :
      f \in { g \in (1..MaxLen) \X (2..MaxLen) : g[1] < g[2] }, o \in Offsets }

InitToeoff ==
    /\ NoTrial
    /\ cyc_args \in LongCycleArgs
    /\ cyc = NoCycle
    /\ cpc = "args"
    /\ out = <<>>
    /\ NoNumutils
    /\ NoStats
    /\ NoTrialUse
    /\ NoPlot
    /\ NoDelete

NextToeoff == NewGaitcycle

SpecToeoff == InitToeoff /\ [][NextToeoff]_vars

---------------------------------------------------------------------------
(* Segmentation: what the claims speak of *)

StrikesOf(ctx) == IF ctx = "L" THEN lstrikes ELSE rstrikes
ToeoffsOf(ctx) == IF ctx = "L" THEN ltoeoffs ELSE rtoeoffs

\* the toe-off entries of list toeoffs strictly between frames s and e
ToeoffsInWindow(toeoffs, s, e) == { i \in DOMAIN toeoffs : s < toeoffs[i] /\ toeoffs[i] < e }

\* window k of a side: its consecutive strikes k, k+1
Windows(ctx) == 1..(Len(StrikesOf(ctx)) - 1)
WindowToeoffs(ctx, k) ==
    ToeoffsInWindow(ToeoffsOf(ctx), StrikesOf(ctx)[k], StrikesOf(ctx)[k + 1])
GoodWindow(ctx, k) == Cardinality(WindowToeoffs(ctx, k)) = 1

\* a side with strikes s_0 < ... < s_n, n >= 1, and one toe-off per window
GoodSide(ctx) ==
    /\ Len(StrikesOf(ctx)) >= 2
    /\ \A k \in Windows(ctx) : StrikesOf(ctx)[k] < StrikesOf(ctx)[k + 1] /\ GoodWindow(ctx, k)

\* the Trial's cycles of one side, in cycle-list order
SideCycles(ctx) == SelectSeq(cycles, LAMBDA c : c.context = ctx)

\* cycle c is the cycle of window k of side ctx
IsWindowCycle(c, ctx, k) ==
    /\ c.context = ctx
    /\ c.start = StrikesOf(ctx)[k] - meta.offset
    /\ c.end = StrikesOf(ctx)[k + 1] - meta.offset
    /\ \E i \in WindowToeoffs(ctx, k) : c.toeoff = ToeoffsOf(ctx)[i] - meta.offset

\* C1 (as claimed): a side with strikes s_0 < ... < s_n and exactly one
\* toe-off in every window gets exactly n cycles, the k-th from s_k to
\* s_{k+1} with that window's toe-off.
C1_GoodSideGetsItsCycles ==
    status = "ok" =>
        \A ctx \in {"L", "R"} :
            GoodSide(ctx) =>
                /\ Len(SideCycles(ctx)) = Len(StrikesOf(ctx)) - 1
                /\ \A k \in Windows(ctx) : IsWindowCycle(SideCycles(ctx)[k], ctx, k)

\* C2 (as claimed): construction fails with GaitDataError whenever some
\* window of some side holds no toe-off or more than one.
C2_BadWindowFails ==
    (status # "new" /\ \E ctx \in {"L", "R"} : \E k \in Windows(ctx) : ~GoodWindow(ctx, k))
        => status = "GaitDataError"

\* C3: a side with fewer than 2 strikes contributes no cycle, and no
\* exception is raised while that side is scanned, whatever its toe-offs.
C3_ShortSideNoCyclesNoError ==
    status # "new" =>
        /\ Len(lstrikes) < 2 => (SideCycles("L") = <<>> /\ err.side # 1)
        /\ Len(rstrikes) < 2 => (SideCycles("R") = <<>> /\ err.side # 2)

C3_Witness ==
    /\ status = "ok"
    /\ Len(rstrikes) = 1 /\ Len(rtoeoffs) >= 1
    /\ Len(cycles) = 2

\* C4 (as claimed): the right side's cycles depend on the right side's
\* events alone: every right window with exactly one right toe-off has its
\* cycle in the list of a constructed Trial, whatever the left side holds.
C4_RightWindowsYieldCycles ==
    status = "ok" =>
        \A k \in Windows("R") :
            GoodWindow("R", k) => \E i \in DOMAIN cycles : IsWindowCycle(cycles[i], "R", k)

\* C6 (as claimed): in a constructed Trial the cycles of one side are in
\* strictly increasing order of start, each with start < toeoff < end, and
\* the end of each is the start of the next one of that side.
C6_SideCyclesOrdered ==
    status = "ok" =>
        \A ctx \in {"L", "R"} :
            LET sc == SideCycles(ctx)
            IN  /\ \A i \in DOMAIN sc : sc[i].start < sc[i].toeoff /\ sc[i].toeoff < sc[i].end
                /\ \A i \in 1..(Len(sc) - 1) :
                       sc[i].start < sc[i + 1].start /\ sc[i].end = sc[i + 1].start

\* the orders in which a list can be delivered
Perms(li) ==
    { [i \in 1..Len(li) |-> li[p[i]]] : p \in Permutations(1..Len(li)) }

\* the ascending arrangement of a list
Canon(li) == CHOOSE s \in Perms(li) : \A i \in 1..(Len(s) - 1) : s[i] <= s[i + 1]

Outcome == [status |-> status, cycles |-> cycles, err |-> err]

\* C7: the outcome of construction (the cycles, or the error) is that of
\* scanning the ascending arrangement of the four delivered lists, and is
\* the same for every other order of delivery of any one list.
C7_DeliveryOrderIrrelevant ==
    status # "new" =>
        /\ lstrikes = Canon(meta.lstrikes) /\ rstrikes = Canon(meta.rstrikes)
        /\ ltoeoffs = Canon(meta.ltoeoffs) /\ rtoeoffs = Canon(meta.rtoeoffs)
        /\ \A p \in Perms(meta.lstrikes) :
               TrialOutcome([meta EXCEPT !.lstrikes = p], fp_detect) = Outcome
        /\ \A p \in Perms(meta.rstrikes) :
               TrialOutcome([meta EXCEPT !.rstrikes = p], fp_detect) = Outcome
        /\ \A p \in Perms(meta.ltoeoffs) :
               TrialOutcome([meta EXCEPT !.ltoeoffs = p], fp_detect) = Outcome
        /\ \A p \in Perms(meta.rtoeoffs) :
               TrialOutcome([meta EXCEPT !.rtoeoffs = p], fp_detect) = Outcome

\* delivered out of order on both sides, and two cycles were built
C7_Witness ==
    /\ status = "ok"
    /\ meta.lstrikes # lstrikes /\ meta.ltoeoffs # ltoeoffs
    /\ Len(SideCycles("L")) = 2

---------------------------------------------------------------------------
(* Forceplate flag *)

FpStrikesOf(ctx) == IF ctx = "L" THEN fp_detect.L_strikes ELSE fp_detect.R_strikes

\* C5: a cycle is on_forceplate exactly when some forceplate strike of the
\* cycle's side lies within STRIKE_TOL frames of the cycle's start (both
\* 0-based); with no forceplate strike of that side it is not, and an
\* empty list raises nothing.
C5_OnForceplateIffNearStrike ==
    /\ status = "ok" =>
           \A i \in DOMAIN cycles :
               cycles[i].on_forceplate <=>
                   \E j \in DOMAIN FpStrikesOf(cycles[i].context) :
                       Abs(FpStrikesOf(cycles[i].context)[j] - cycles[i].start) <= STRIKE_TOL
    /\ (status # "new" /\ ~fp_detect.raises) => status = "ok"

\* a recording with a non-zero offset, one cycle on a forceplate, one not
\* though its side has forceplate strikes, and one whose side has none
C5_Witness ==
    /\ status = "ok"
    /\ meta.offset > 0
    /\ fp_detect.R_strikes = <<>>
    /\ \E i, j, k \in DOMAIN cycles :
           /\ cycles[i].context = "L" /\ cycles[i].on_forceplate
           /\ cycles[j].context = "L" /\ ~cycles[j].on_forceplate
           /\ cycles[k].context = "R" /\ ~cycles[k].on_forceplate

---------------------------------------------------------------------------
(* Gaitcycle: normalized toe-off, crop_analog, normalize *)

\* C8 (as claimed): toeoffn is round(100*(toeoff-start)/(end-start)) of the
\* exact quotient, lies in 0..100, and does not depend on the offset.
C8_ToeoffnIsRoundedPercentage ==
    cpc = "cycle" =>
        /\ cyc.toeoffn = RoundHalfAway(100 * (cyc_args.toeoff - cyc_args.start),
                                       cyc_args.end - cyc_args.start)
        /\ cyc.toeoffn \in 0..100
        /\ cyc.toeoffn = Gaitcycle(cyc_args.start - cyc_args.offset,
                                   cyc_args.end - cyc_args.offset, 0,
                                   cyc_args.toeoff - cyc_args.offset, cyc_args.context,
                                   cyc_args.on_forceplate, cyc_args.spf).toeoffn

\* C9 (as claimed): crop_analog returns round((end-start)*samplesperframe)
\* points, on the time axis and in the data.
C9_CropLengthIsRoundedProduct ==
    cpc = "cropped" =>
        /\ Len(out.t) = RoundHalfAway((cyc.end - cyc.start) * cyc_args.spf.num, cyc_args.spf.den)
        /\ Len(out.data) = RoundHalfAway((cyc.end - cyc.start) * cyc_args.spf.num, cyc_args.spf.den)

\* C9 (amended): crop_analog returns len_smp points, on the time axis and
\* in the data, where len_smp = round(end*spf) - round(start*spf) for the
\* cycle's 0-based start and end; that is round((end-start)*spf) when
\* samplesperframe is a whole number, and within one of it otherwise.
C9_CropLengthIsLenSmp ==
    cpc = "cropped" =>
        LET n == RoundHalfAway(cyc.end * cyc_args.spf.num, cyc_args.spf.den)
                 - RoundHalfAway(cyc.start * cyc_args.spf.num, cyc_args.spf.den)
            m == RoundHalfAway((cyc.end - cyc.start) * cyc_args.spf.num, cyc_args.spf.den)
        IN  /\ Len(out.t) = n
            /\ Len(out.data) = n
            /\ cyc.len_smp = n
            /\ \A i \in 1..n : out.data[i] = out.var[cyc.start_smp + i]
            /\ cyc_args.spf.num % cyc_args.spf.den = 0 => n = m
            /\ Abs(n - m) <= 1

\* a cycle whose start falls on half a sample: one point fewer than
\* round((end-start)*spf)
C9_Witness ==
    /\ cpc = "cropped"
    /\ cyc_args.spf = [num |-> 3, den |-> 2]
    /\ cyc.start = 1 /\ cyc.end = 4
    /\ Len(out.data) = 4

\* C10: normalize returns the axis 0, 1, ..., 100 and 101 values, the
\* linear interpolation of var[start:end] at the positions i*(len-1)/100:
\* the first is var[start], the last var[end-1].
C10_NormalizeTo101Points ==
    cpc = "normalized" =>
        LET crop == [j \in 0..(cyc.len - 1) |-> out.var[cyc.start + j + 1]]
        IN  /\ Len(out.t) = 101
            /\ \A i \in 0..100 : out.t[i + 1] = [num |-> i, den |-> 1]
            /\ Len(out.data) = 101
            /\ out.data[1] = [num |-> crop[0], den |-> 1]
            /\ out.data[101] = [num |-> crop[cyc.len - 1], den |-> 1]
            /\ \A i \in 0..99 :
                   LET j == (i * (cyc.len - 1)) \div 100
                       w == i * (cyc.len - 1) - 100 * j
                   IN  out.data[i + 1].num * 100 =
                           (100 * crop[j] + (crop[j + 1] - crop[j]) * w) * out.data[i + 1].den

\* a cycle of several frames that does not start the recording, on a
\* variable that changes within it
C10_Witness ==
    /\ cpc = "normalized"
    /\ cyc.start > 0 /\ cyc.len >= 3
    /\ out.var[cyc.start + 1] # out.var[cyc.start + 2]
    /\ out.var[cyc.end] # out.var[cyc.end + 1]
    /\ out.data[2].den > 1

---------------------------------------------------------------------------
(* numutils: mad, modified_zscore, outliers (src/gaitutils/numutils.py).    *)
(* Arrays are two-dimensional, a sequence of rows of exact rationals; axis  *)
(* is "None", "0" or "1".  A quotient is a float: finite, inf, -inf or nan. *)

\* matrices have 1..MaxRows rows and 1..MaxCols columns
MaxRows == 3
MaxCols == 2
\* largest number of entries of an input array
MaxCells == 6
\* array entries are 0 or MaxNumVal
MaxNumVal == 2

RatOf(n) == [num |-> n, den |-> 1]
RatAdd(x, y) == Rat(x.num * y.den + y.num * x.den, x.den * y.den)
RatSub(x, y) == Rat(x.num * y.den - y.num * x.den, x.den * y.den)
RatMul(x, y) == Rat(x.num * y.num, x.den * y.den)
RatAbs(x) == [num |-> Abs(x.num), den |-> x.den]
RECURSIVE RatInsert(_, _)
RatInsert(x, s) ==
    IF s = <<>> THEN <<x>>
    ELSE IF RatLeq(x, Head(s)) THEN <<x>> \o s
         ELSE <<Head(s)>> \o RatInsert(x, Tail(s))

RECURSIVE RatSort(_)
RatSort(s) == IF s = <<>> THEN <<>> ELSE RatInsert(Head(s), RatSort(Tail(s)))

\* np.median of a non-empty one-dimensional array: the middle value, or the
\* mean of the two middle values
MedianSeq(s) ==
    LET t == RatSort(s)
        n == Len(s)
    IN  IF n % 2 = 1 THEN t[(n + 1) \div 2]
        ELSE RatMul(RatAdd(t[n \div 2], t[n \div 2 + 1]), Rat(1, 2))

RECURSIVE Flatten(_)
Flatten(m) == IF m = <<>> THEN <<>> ELSE Head(m) \o Flatten(Tail(m))

Column(m, j) == [i \in 1..Len(m) |-> m[i][j]]

\* the entries that are reduced together with entry (i, j) along axis
Along(m, axis, i, j) ==
    IF axis = "None" THEN Flatten(m)
    ELSE IF axis = "0" THEN Column(m, j)
    ELSE m[i]

\* np.median(m, axis=axis, keepdims=True), broadcast to the shape of m
NpMedian(m, axis) ==
    [i \in 1..Len(m) |-> [j \in 1..Len(m[1]) |-> MedianSeq(Along(m, axis, i, j))]]

\* the entries of a keepdims result, each once
Kept(b, axis) ==
    IF axis = "None" THEN <<b[1][1]>>
    ELSE IF axis = "0" THEN b[1]
    ELSE Column(b, 1)

\* scale=1.4826
MadScale == Rat(14826, 10000)

\* mad(data, axis, keepdims=True), broadcast to the shape of data
Mad(data, axis) ==
    LET med == NpMedian(data, axis)
        abs_devs == [i \in 1..Len(data) |-> [j \in 1..Len(data[1]) |->
                        RatAbs(RatSub(data[i][j], med[i][j]))]]
        dev_med == NpMedian(abs_devs, axis)
    IN  [i \in 1..Len(data) |-> [j \in 1..Len(data[1]) |->
            RatMul(MadScale, dev_med[i][j])]]

\* floating point values
Fin(r) == [k |-> "fin", num |-> r.num, den |-> r.den]
Inf == [k |-> "inf", num |-> 1, den |-> 0]
NegInf == [k |-> "-inf", num |-> -1, den |-> 0]
NaN == [k |-> "nan", num |-> 0, den |-> 0]

\* x / y of numpy for y >= 0: x/0 is inf or -inf by the sign of x, 0/0 is nan
FloatDiv(x, y) ==
    IF y.num = 0
    THEN IF x.num > 0 THEN Inf ELSE IF x.num < 0 THEN NegInf ELSE NaN
    ELSE Fin(Rat(x.num * y.den, x.den * y.num))

FloatAbs(z) ==
    IF z.k = "-inf" THEN Inf
    ELSE IF z.k = "fin" THEN [z EXCEPT !.num = Abs(z.num)]
    ELSE z

\* n/d > x and n/d < x for n >= 0, d > 0 and a positive double x, exactly:
\* n * 2^(z+53) is compared with (top * 2^52 + limbs) * d
RatGtDouble(n, d, x) ==
    IF x.z >= -1
    THEN n * Pow2(x.z + 1) > x.top * d + MulLimbs(x.limbs, d, 0).carry
    ELSE n > x.top * d * Pow2(-x.z - 1)
             + MulLimbs(x.limbs, d * Pow2(-x.z - 1), 0).carry

RatLtDouble(n, d, x) ==
    LET m == IF x.z >= -1 THEN d ELSE d * Pow2(-x.z - 1)
        l == IF x.z >= -1 THEN n * Pow2(x.z + 1) ELSE n
        p == MulLimbs(x.limbs, m, 0)
    IN  l < x.top * m + p.carry
        \/ (l = x.top * m + p.carry /\ \E i \in DOMAIN p.limbs : p.limbs[i] # 0)

\* a > b for a finite quotient a and a finite b
FinGt(a, b) ==
    IF b.k = "fin" THEN a.num * b.den > b.num * a.den
    ELSE IF b.neg THEN a.num >= 0 \/ RatLtDouble(-a.num, a.den, b)
    ELSE a.num > 0 /\ RatGtDouble(a.num, a.den, b)

\* a > b of IEEE floats: false when either is nan
FloatGtNanTrue(a, b) ==
    IF a.k = "nan" \/ b.k = "nan" THEN TRUE
    ELSE IF a.k = "inf" THEN b.k # "inf"
    ELSE IF a.k = "-inf" THEN FALSE
    ELSE IF b.k = "inf" THEN FALSE
    ELSE IF b.k = "-inf" THEN TRUE
    ELSE FinGt(a, b)

FloatGt(a, b) ==
    IF a.k = "nan" \/ b.k = "nan" THEN FALSE
    ELSE IF a.k = "inf" THEN b.k # "inf"
    ELSE IF a.k = "-inf" THEN FALSE
    ELSE IF b.k = "inf" THEN FALSE
    ELSE IF b.k = "-inf" THEN TRUE
    ELSE FinGt(a, b)

\* np.median(mad_) of modified_zscore: the median of the MADs along the axis
SingleMad(mad_, axis) == MedianSeq(Kept(mad_, axis))

ModifiedZscore(data, axis, single_mad) ==
    LET med_ == NpMedian(data, axis)
        mad_ax == Mad(data, axis)
        one == SingleMad(mad_ax, axis)
    IN  [i \in 1..Len(data) |-> [j \in 1..Len(data[1]) |->
            FloatDiv(RatSub(data[i][j], med_[i][j]),
                     IF single_mad THEN one ELSE mad_ax[i][j])]]

\* a finite double that is no small rational: sign, and significand and
\* exponent as in DivDouble
Dbl(neg, limbs, z) == [k |-> "dbl", neg |-> neg, top |-> 1, limbs |-> limbs, z |-> z]

\* np.sqrt(2) * erfcinv(p) as a double, for the p tabulated: the values
\* that scipy.special.erfcinv followed by the product with np.sqrt(2)
\* gives
\*   p = 1/2: 0.6744897501960817
\*   p = 3/2: -0.6744897501960817
\*   p = 1/1000: 3.2905267314918945
ZTable ==
    { <<Rat(1, 2), Dbl(FALSE, <<2633, 6804, 6881, 2858>>, 0)>>,
      <<Rat(3, 2), Dbl(TRUE, <<2633, 6804, 6881, 2858>>, 0)>>,
      <<Rat(1, 1000), Dbl(FALSE, <<6336, 3735, 8171, 5285>>, -2)>> }

\* the probabilities p for which erfcinv(p) is tabulated
PTabulated ==
    {Rat(0, 1), Rat(1, 1), Rat(2, 1)} \union { e[1] : e \in ZTable }

\* z_threshold = np.sqrt(2) * erfcinv(p_threshold), for p_threshold in
\* PTabulated or outside [0, 2]: erfcinv(0) is inf, erfcinv(1) is 0,
\* erfcinv(2) is -inf, and erfcinv is nan outside [0, 2].  For any other
\* p_threshold inside (0, 2) the code has a threshold that is not
\* tabulated here; outliers is applied to the p_threshold of PTabulated
\* only
ZThreshold(p) ==
    IF p.num < 0 \/ p.num > 2 * p.den THEN NaN
    ELSE IF p.num = 0 THEN Inf
    ELSE IF p = Rat(2, 1) THEN NegInf
    ELSE IF p = Rat(1, 1) THEN Fin(Rat(0, 1))
    ELSE (CHOOSE e \in ZTable : e[1] = p)[2]

\* np.where(abs(zs) > z_threshold): the index pairs (row, column), 1-based
Outliers(x, axis, single_mad, p_threshold) ==
    LET zs == ModifiedZscore(x, axis, single_mad)
        z_threshold == ZThreshold(p_threshold)
    IN  { ij \in (1..Len(x)) \X (1..Len(x[1])) :
              FloatGt(FloatAbs(zs[ij[1]][ij[2]]), z_threshold) }

\* arrays of r rows and c columns over the values 0 and MaxNumVal
Matrices(r, c) == [1..r -> [1..c -> {RatOf(0), RatOf(MaxNumVal)}]]
Axes == {"None", "0", "1"}
PThresholds == {Rat(0, 1), Rat(1, 1000), Rat(1, 2), Rat(2, 1)}

NumArgs ==
    UNION { UNION { { [x |-> m, axis |-> a] : m \in Matrices(r, c), a \in Axes } :
                    c \in { k \in 1..MaxCols : r * k <= MaxCells } } : r \in 1..MaxRows }

\* mad(data, axis): one value for each position along the other axis
DoMad ==
    /\ npc = "args"
    /\ nu_res' = [mad |-> Kept(Mad(nu_args.x, nu_args.axis), nu_args.axis)]
    /\ npc' = "mad"
    /\ UNCHANGED <<nu_args, trial_vars, cycle_vars, stats_vars>>
    /\ UNCHANGED <<use_vars, viz_vars, del_vars>>

DoModifiedZscore ==
    /\ npc = "args"
    /\ \E single_mad \in BOOLEAN :
           nu_res' = [single_mad |-> single_mad,
                      zs |-> ModifiedZscore(nu_args.x, nu_args.axis, single_mad)]
    /\ npc' = "modified_zscore"
    /\ UNCHANGED <<nu_args, trial_vars, cycle_vars, stats_vars>>
    /\ UNCHANGED <<use_vars, viz_vars, del_vars>>

DoOutliers ==
    /\ npc = "args"
    /\ \E single_mad \in BOOLEAN, p \in PThresholds :
           nu_res' = [single_mad |-> single_mad, p_threshold |-> p,
                      idx |-> Outliers(nu_args.x, nu_args.axis, single_mad, p)]
    /\ npc' = "outliers"
    /\ UNCHANGED <<nu_args, trial_vars, cycle_vars, stats_vars>>
    /\ UNCHANGED <<use_vars, viz_vars, del_vars>>

InitNum ==
    /\ NoTrial
    /\ NoGaitcycle
    /\ NoStats
    /\ NoTrialUse
    /\ NoPlot
    /\ NoDelete
    /\ nu_args \in NumArgs
    /\ nu_res = <<>>
    /\ npc = "args"

NextNum == DoMad \/ DoModifiedZscore \/ DoOutliers

SpecNum == InitNum /\ [][NextNum]_vars

---------------------------------------------------------------------------
(* stats: _collect_model_data and average_trials (src/gaitutils/stats.py).  *)

\* the models known to gaitutils.models: their variables in the order of
\* model.varnames, and the kinetic ones
pig_lowerbody ==
    [desc |-> "Plug-in Gait lower body",
     varnames |-> <<"LHipAnglesX", "LHipMomentX", "RHipAnglesX", "RHipMomentX">>,
     kinetic |-> {"LHipMomentX", "RHipMomentX"}]
musclelen ==
    [desc |-> "Muscle length",
     varnames |-> <<"LSoleLength", "RSoleLength">>,
     kinetic |-> {}]
models_all == <<pig_lowerbody, musclelen>>

Range(f) == { f[i] : i \in DOMAIN f }
AllVars == UNION { Range(m.varnames) : m \in Range(models_all) }

\* models.model_from_var(var)
model_from_var(var) == CHOOSE m \in Range(models_all) : var \in Range(m.varnames)

\* model.is_kinetic_var(var)
is_kinetic_var(model, var) == var \in model.kinetic

\* var[0]: the first letter of the variable's name is its side
VarContext ==
    [v \in AllVars |-> IF v \in {"LHipAnglesX", "LHipMomentX", "LSoleLength"}
                       THEN "L" ELSE "R"]

\* A trial as _collect_model_data uses it: a Trial (trial.py) with its
\* trialname and its cycles (trial.cycles), each cycle with its context,
\* on_forceplate and the curve of the trial's variables normalized to it (an
\* all-NaN curve is NanCurve); trial.avail holds the models the trial's
\* source can supply.
NanCurve == <<>>

\* trial.get_model_data(var) for a Trial (lines 226 and 251): the class
\* Trial of trial.py has no attribute get_model_data (and no __getattr__),
\* so the attribute lookup raises AttributeError
GetModelData(trial, var) == [raises |-> "AttributeError"]

\* lines 222-232: the models whose first variable can be read.  A
\* GaitDataError is caught and the model left out (line 228); any other
\* exception ends the call
RECURSIVE ModelsOk(_, _)
ModelsOk(trial, ms) ==
    IF ms = <<>> THEN [raises |-> "none", models |-> <<>>]
    ELSE LET got == GetModelData(trial, Head(ms).varnames[1])
             rest == ModelsOk(trial, Tail(ms))
         IN  IF got.raises = "GaitDataError" THEN rest
             ELSE IF got.raises # "none"
                  THEN [raises |-> got.raises, models |-> <<>>]
                  ELSE [raises |-> rest.raises, models |-> <<Head(ms)>> \o rest.models]

\* lines 212-262: the loop over the trials.  models_ok holds the models for
\* which line 226 has returned; get_model_data returns for none, so for a
\* trial for which line 226 does not raise models_ok is empty and the loop
\* of lines 233-262 runs over nothing
RECURSIVE CollectTrials(_)
CollectTrials(trials) ==
    IF trials = <<>> THEN [raises |-> "none"]
    ELSE LET ok == ModelsOk(Head(trials), models_all)
         IN  IF ok.raises # "none" THEN [raises |-> ok.raises]
             ELSE CollectTrials(Tail(trials))

\* every cycle's curve becomes a row of every variable of its side, with no
\* forceplate test and no error
CollectModelDataAllCycles(trials, fp_cycles_only) ==
    LET cycs == UNION { Range(trials[t].cycles) : t \in DOMAIN trials }
        OfSide(v) == { c \in cycs : c.context = VarContext[v] }
        Rows(v) == CHOOSE q \in [1..Cardinality(OfSide(v)) -> OfSide(v)] :
                       Range(q) = OfSide(v)
    IN  [none |-> FALSE, raises |-> "none",
         data |-> [v \in AllVars |-> [i \in DOMAIN Rows(v) |-> Rows(v)[i].curve]],
         nc |-> [R |-> 0, L |-> 0, Rkin |-> 0, Lkin |-> 0]]

\* _collect_model_data(trials, fp_cycles_only): (None, None) for an empty
\* trial list (lines 201-203); otherwise the exception of line 226, or
\* data_all without any row (as a defaultdict it has no value for any
\* variable) and nc with its zeros of line 210
CollectModelData(trials, fp_cycles_only) ==
    IF trials = <<>> THEN [none |-> TRUE, raises |-> "none"]
    ELSE IF CollectTrials(trials).raises # "none"
         THEN [none |-> FALSE, raises |-> CollectTrials(trials).raises]
         ELSE [none |-> FALSE, raises |-> "none",
               data |-> [v \in AllVars |-> <<>>],
               nc |-> [R |-> 0, L |-> 0, Rkin |-> 0, Lkin |-> 0]]

\* trial.set_norm_cycle(cycle) for every cycle of the trial, whether or not
\* its models can be read
SetNormCyclesAlways(trials, before) ==
    [t \in DOMAIN trials |->
        IF trials[t].cycles # <<>>
        THEN ANorm(trials[t].cycles[Len(trials[t].cycles)])
        ELSE before[t]]

\* line 236: trial.set_norm_cycle(cycle) runs for the cycles of a trial that
\* the loop over the trials reaches (line 226 has raised for no trial
\* before it nor for itself) and that has a model in models_ok; the trial's
\* normalization cycle is then left at the last of its cycles
SetNormCycles(trials, before) ==
    [t \in DOMAIN trials |->
        IF /\ \A s \in 1..t : ModelsOk(trials[s], models_all).raises = "none"
           /\ ModelsOk(trials[t], models_all).models # <<>>
           /\ trials[t].cycles # <<>>
        THEN ANorm(trials[t].cycles[Len(trials[t].cycles)])
        ELSE before[t]]

\* the trials hold at most MaxCycles cycles altogether
MaxCycles == 2
\* a normalized curve has CurveLen points
CurveLen == 2

Contexts == {"L", "R"}
Avails == { {pig_lowerbody.desc, musclelen.desc}, {pig_lowerbody.desc}, {musclelen.desc} }

\* the curve of the n-th cycle is the constant n, or all NaN
TaggedCurve(n, isnan) == IF isnan THEN NanCurve ELSE [i \in 1..CurveLen |-> n]

CycleKinds == [context : Contexts, on_forceplate : BOOLEAN, isnan : BOOLEAN]

\* two trials: the first k of the cycles belong to trial 1, the others to trial 2
TrialPairs(cycleseqs, avails) ==
    { <<[trialname |-> "t1", avail |-> q[3], cycles |-> SubSeq(q[1], 1, q[2])],
        [trialname |-> "t2", avail |-> q[4],
         cycles |-> SubSeq(q[1], q[2] + 1, Len(q[1]))]>> :
      q \in { r \in cycleseqs \X (0..MaxCycles + 1) \X avails \X avails :
                 r[2] <= Len(r[1]) } }

CollectCycleSeqs ==
    UNION { { [j \in 1..n |->
                  [context |-> ks[j].context, on_forceplate |-> ks[j].on_forceplate,
                   curve |-> TaggedCurve(j, ks[j].isnan)]] :
              ks \in [1..n -> CycleKinds] } : n \in 0..MaxCycles }

CollectArgs ==
    { [trials |-> ts, fp_cycles_only |-> f] :
      ts \in TrialPairs(CollectCycleSeqs, Avails) \union {<<>>}, f \in BOOLEAN }

DoCollect ==
    /\ apc = "args"
    /\ avg_res' = CollectModelData(avg_args.trials, avg_args.fp_cycles_only)
    /\ apc' = "collected"
    /\ norm_cycles' = SetNormCycles(avg_args.trials, norm_cycles)
    /\ UNCHANGED <<avg_args, trial_vars, cycle_vars, num_vars>>
    /\ UNCHANGED <<use_vars, viz_vars, del_vars>>

InitCollect ==
    /\ NoTrial
    /\ NoGaitcycle
    /\ NoNumutils
    /\ NoTrialUse
    /\ NoPlot
    /\ NoDelete
    /\ avg_args \in CollectArgs
    /\ avg_res = <<>>
    /\ apc = "args"
    /\ norm_cycles = [t \in DOMAIN avg_args.trials |-> NoNorm]

NextCollect == DoCollect

SpecCollect == InitCollect /\ [][NextCollect]_vars

---------------------------------------------------------------------------
(* average_trials *)

\* reject_outliers=None
NoOutlierRejection == [none |-> TRUE, num |-> 0, den |-> 1]

\* the outcome tells which trial is the first of the list
AverageTrialsFirstTrial(trials, fp_cycles_only, reject_zeros, reject_outliers, use_medians) ==
    [status |-> "AttributeError", none |-> FALSE,
     first |-> IF trials = <<>> THEN "" ELSE trials[1].trialname]

\* average_trials(trials, fp_cycles_only, reject_zeros, reject_outliers,
\* use_medians): the exception of _collect_model_data (line 126) if it
\* raises one; (None,) * 4 if data is None (lines 127-128); otherwise the
\* loop of lines 134-183 over the items of data, which has none, and the
\* four results without any variable (vars holds no key)
AverageTrials(trials, fp_cycles_only, reject_zeros, reject_outliers, use_medians) ==
    LET collected == CollectModelData(trials, fp_cycles_only)
    IN  IF collected.raises # "none"
        THEN [status |-> collected.raises, none |-> FALSE]
        ELSE IF collected.none THEN [status |-> "ok", none |-> TRUE]
        ELSE [status |-> "ok", none |-> FALSE,
              vars |-> [v \in AllVars |-> [key |-> FALSE]]]

\* the cycles of the trials averaged, all on the left side: off the
\* forceplate with a flat curve of ones, or on the forceplate with a curve of
\* ones that has a zero in its first frame or with a flat curve of twos
CurveA == [i \in 1..CurveLen |-> 1]
CurveB == [i \in 1..CurveLen |-> IF i = 1 THEN 0 ELSE 1]
CurveC == [i \in 1..CurveLen |-> 2]

AvgCycleKinds ==
    { [context |-> "L", on_forceplate |-> FALSE, curve |-> CurveA],
      [context |-> "L", on_forceplate |-> TRUE, curve |-> CurveB],
      [context |-> "L", on_forceplate |-> TRUE, curve |-> CurveC] }

AvgCycleSeqs == UNION { [1..n -> AvgCycleKinds] : n \in 0..(MaxCycles + 1) }

\* reject_outliers: None or 1e-3
RejectOutliersArgs == {NoOutlierRejection, [none |-> FALSE, num |-> 1, den |-> 1000]}

\* an empty trial list, or two trials
AvgArgs ==
    [trials : TrialPairs(AvgCycleSeqs, {{pig_lowerbody.desc, musclelen.desc}}) \union {<<>>},
     fp_cycles_only : BOOLEAN, reject_zeros : BOOLEAN,
     reject_outliers : RejectOutliersArgs, use_medians : BOOLEAN]

DoAverage ==
    /\ apc = "args"
    /\ avg_res' = AverageTrials(avg_args.trials, avg_args.fp_cycles_only,
                                avg_args.reject_zeros, avg_args.reject_outliers,
                                avg_args.use_medians)
    /\ apc' = "averaged"
    /\ norm_cycles' = SetNormCycles(avg_args.trials, norm_cycles)
    /\ UNCHANGED <<avg_args, trial_vars, cycle_vars, num_vars>>
    /\ UNCHANGED <<use_vars, viz_vars, del_vars>>

\* before the call a trial has no normalization cycle or is normalized to
\* one of its cycles
NormsBefore(trials) ==
    { f \in [DOMAIN trials -> {NoNorm} \union
                 { ANorm(c) : c \in UNION { Range(trials[t].cycles) : t \in DOMAIN trials } }] :
        \A t \in DOMAIN trials :
            f[t] = NoNorm \/ \E c \in Range(trials[t].cycles) : f[t] = ANorm(c) }

InitAvg ==
    /\ NoTrial
    /\ NoGaitcycle
    /\ NoNumutils
    /\ NoTrialUse
    /\ NoPlot
    /\ NoDelete
    /\ avg_args \in AvgArgs
    /\ avg_res = <<>>
    /\ apc = "args"
    /\ norm_cycles \in NormsBefore(avg_args.trials)

\* AvgTrial.__init__ after average_trials has returned (lines 41-67): the
\* averaged data, spread and accepted counts are kept as _model_data,
\* stddev_data and n_ok, then the first placeholder cycle is built with the
\* keywords name and trial, which Gaitcycle.__init__ does not take (line 61):
\* TypeError, and no AvgTrial comes into being
AvgTrialAfter(averaged) ==
    IF averaged.status # "ok" THEN averaged
    ELSE [status |-> "TypeError", none |-> FALSE, line |-> 61, kept |-> averaged]

\* the arguments with which AvgTrial.__init__ calls average_trials (lines
\* 38-40): trials, reject_outliers and fp_cycles_only are passed on,
\* reject_zeros and use_medians are not and have the defaults of lines 87 and 89
AvgTrialCall(reject_zeros, reject_outliers, fp_cycles_only) ==
    [fp_cycles_only |-> fp_cycles_only, reject_zeros |-> TRUE,
     reject_outliers |-> reject_outliers, use_medians |-> FALSE]

\* AvgTrial.__init__: call holds the arguments that average_trials is
\* entered with, outcome how __init__ ends
AvgTrial(trials, reject_zeros, reject_outliers, fp_cycles_only) ==
    LET call == AvgTrialCall(reject_zeros, reject_outliers, fp_cycles_only)
    IN  [call |-> call,
         outcome |-> AvgTrialAfter(
             AverageTrials(trials, call.fp_cycles_only, call.reject_zeros,
                           call.reject_outliers, call.use_medians))]

NewAvgTrial ==
    /\ apc = "args"
    /\ avg_res' = AvgTrial(avg_args.trials, avg_args.reject_zeros,
                           avg_args.reject_outliers, avg_args.fp_cycles_only)
    /\ apc' = "avgtrial"
    /\ norm_cycles' = SetNormCycles(avg_args.trials, norm_cycles)
    /\ UNCHANGED <<avg_args, trial_vars, cycle_vars, num_vars>>
    /\ UNCHANGED <<use_vars, viz_vars, del_vars>>

NextAvg == DoAverage \/ NewAvgTrial

SpecAvg == InitAvg /\ [][NextAvg]_vars

\* NCommon cycles of one common curve and one cycle of that curve offset by
\* OutlierOffset
NCommon == 10
OutlierOffset == 50

\* the common curves: flat, or a ramp
CommonCurves ==
    { [i \in 1..CurveLen |-> 1], [i \in 1..CurveLen |-> i] }

OffsetCurve(c) == [i \in 1..CurveLen |-> c[i] + OutlierOffset]

\* the offset cycle is the n-th of the NCommon + 1 cycles
OutlierCycleSeqs ==
    { [j \in 1..(NCommon + 1) |->
          [context |-> "L", on_forceplate |-> TRUE,
           curve |-> IF j = q[2] THEN OffsetCurve(q[1]) ELSE q[1]]] :
      q \in CommonCurves \X (1..(NCommon + 1)) }

OutlierArgs ==
    { [trials |-> <<[trialname |-> "t1", avail |-> {pig_lowerbody.desc, musclelen.desc},
                     cycles |-> SubSeq(q[1], 1, q[2])],
                    [trialname |-> "t2", avail |-> {pig_lowerbody.desc, musclelen.desc},
                     cycles |-> SubSeq(q[1], q[2] + 1, NCommon + 1)]>>,
       fp_cycles_only |-> q[3], reject_zeros |-> q[4],
       reject_outliers |-> [none |-> FALSE, num |-> 1, den |-> 1000],
       use_medians |-> q[5]] :
      q \in OutlierCycleSeqs \X (0..(NCommon + 1)) \X BOOLEAN \X BOOLEAN \X BOOLEAN }

InitOutlier ==
    /\ NoTrial
    /\ NoGaitcycle
    /\ NoNumutils
    /\ NoTrialUse
    /\ NoPlot
    /\ NoDelete
    /\ avg_args \in OutlierArgs
    /\ avg_res = <<>>
    /\ apc = "args"
    /\ norm_cycles = [t \in DOMAIN avg_args.trials |-> NoNorm]

SpecOutlier == InitOutlier /\ [][NextAvg]_vars

---------------------------------------------------------------------------
(* Claims about numutils *)

\* the entries of a matrix, as a set
Entries(m) == { m[i][j] : i \in 1..Len(m), j \in 1..Len(m[1]) }

\* C15: when the MAD that outliers() divides by is 0, exactly the entries
\* that differ from the median are reported (for a finite threshold), and
\* the zero MAD is guarded: no Z-score is inf or nan.
C15_ZeroMadGuarded ==
    LET x == nu_args.x
        ax == nu_args.axis
        med == NpMedian(x, ax)
        mad_ax == Mad(x, ax)
        TheMad(i, j) == IF nu_res.single_mad THEN SingleMad(mad_ax, ax)
                        ELSE mad_ax[i][j]
    IN  /\ (npc = "outliers" /\ ZThreshold(nu_res.p_threshold).k \in {"fin", "dbl"}) =>
               \A i \in 1..Len(x), j \in 1..Len(x[1]) :
                   TheMad(i, j).num = 0 =>
                       (<<i, j>> \in nu_res.idx <=> x[i][j] # med[i][j])
        /\ npc = "modified_zscore" =>
               \A z \in Entries(nu_res.zs) : z.k = "fin"

\* C16: when all entries of x are identical, mad(x) is 0 and outliers(x)
\* reports nothing, for every axis and every p_threshold.
C16_ConstantDataNoOutliers ==
    Cardinality(Entries(nu_args.x)) = 1 =>
        /\ npc = "mad" => \A i \in 1..Len(nu_res.mad) : nu_res.mad[i].num = 0
        /\ npc = "outliers" => nu_res.idx = {}

\* outliers() was called on a constant array of several entries with the
\* threshold -inf (p_threshold = 2), and reported nothing
C16_Witness ==
    /\ npc = "outliers"
    /\ Cardinality(Entries(nu_args.x)) = 1
    /\ Len(nu_args.x) > 1 /\ Len(nu_args.x[1]) > 1
    /\ nu_args.x[1][1].num # 0
    /\ nu_args.axis = "0"
    /\ nu_res.p_threshold = Rat(2, 1)
    /\ nu_res.idx = {}

\* C17: with single_mad every deviation from the axis median is divided by
\* the MAD of the whole array (scaled median of |x - median of all
\* entries|), without it by the MAD along the axis.
C17_SingleMadIsGlobalMad ==
    npc = "modified_zscore" =>
        LET x == nu_args.x
            ax == nu_args.axis
            med == NpMedian(x, ax)
            global == Mad(x, "None")[1][1]
            local == Mad(x, ax)
        IN  \A i \in 1..Len(x), j \in 1..Len(x[1]) :
                nu_res.zs[i][j] =
                    FloatDiv(RatSub(x[i][j], med[i][j]),
                             IF nu_res.single_mad THEN global ELSE local[i][j])

---------------------------------------------------------------------------
(* Claims about _collect_model_data.  In SpecCollect every cycle has its    *)
(* own curve, so a gathered row names the cycle it was read from.           *)

\* the cycles of the trials passed, each with the models of its trial
ArgCycles ==
    { [avail |-> avg_args.trials[t].avail, cycle |-> avg_args.trials[t].cycles[j]] :
      <<t, j>> \in { q \in (DOMAIN avg_args.trials) \X (1..MaxCycles + 1) :
                       q[2] <= Len(avg_args.trials[q[1]].cycles) } }

\* the rows that the call of _collect_model_data has gathered for variable
\* v: those of data_all[v] if the call has returned data, none otherwise
GatheredRows(v) ==
    IF avg_res.none \/ avg_res.raises # "none" THEN {}
    ELSE Range(avg_res.data[v])

C20_MissingModelSkippedPerTrial ==
    (apc = "collected" /\ ~avg_res.none) =>
        /\ avg_res.raises = "none"
        /\ \A v \in AllVars : \A ac \in ArgCycles :
               ac.cycle.curve # NanCurve =>
                   (ac.cycle.curve \in Range(avg_res.data[v]) <=>
                        /\ model_from_var(v).desc \in ac.avail
                        /\ VarContext[v] = ac.cycle.context
                        /\ ~((is_kinetic_var(model_from_var(v), v)
                                \/ avg_args.fp_cycles_only)
                             /\ ~ac.cycle.on_forceplate))

---------------------------------------------------------------------------
(* Claims about average_trials *)

\* an average curve
ACurve(c) == [none |-> FALSE, curve |-> c]

\* the cycles of the trials, in the order of the trials
RECURSIVE CyclesOf(_)
CyclesOf(trials) ==
    IF trials = <<>> THEN <<>> ELSE Head(trials).cycles \o CyclesOf(Tail(trials))

\* the matrix of variable v as C11 has it gathered from the call's trials:
\* the curves of the cycles of the variable's side that have data, for a
\* kinetic variable or with fp_cycles_only those on the forceplate only
VarMatrix(v) ==
    LET Gathers(c) ==
            /\ c.context = VarContext[v]
            /\ c.curve # NanCurve
            /\ (is_kinetic_var(model_from_var(v), v) \/ avg_args.fp_cycles_only)
                   => c.on_forceplate
        cs == SelectSeq(CyclesOf(avg_args.trials), Gathers)
    IN  [i \in 1..Len(cs) |-> cs[i].curve]

HasZero(row) == \E j \in 1..Len(row) : row[j] = 0

\* the rows without an exact zero, in order
RECURSIVE ZeroFree(_)
ZeroFree(rows) ==
    IF rows = <<>> THEN <<>>
    ELSE (IF HasZero(Head(rows)) THEN <<>> ELSE <<Head(rows)>>) \o ZeroFree(Tail(rows))

\* the rows left by zero rejection: of a kinetic variable, or without
\* reject_zeros, every row
AfterZeroRejection(v) ==
    IF avg_args.reject_zeros /\ ~is_kinetic_var(model_from_var(v), v)
    THEN ZeroFree(VarMatrix(v))
    ELSE VarMatrix(v)

\* the call asks for no outlier rejection
NoOutliersAsked == avg_args.reject_outliers.none

\* C12: with reject_zeros, average_trials returns, and for a non-kinetic
\* variable no row with an exact zero is accepted: the accepted rows are the
\* zero-free ones (all of them when no outliers are rejected), and when
\* these are all the same curve, that curve is the mean; of a kinetic
\* variable no row is dropped for its zeros.
C12_ZeroRowsRejected ==
    (apc = "averaged" /\ avg_args.trials # <<>> /\ avg_args.reject_zeros) =>
        /\ avg_res.status = "ok"
        /\ ~avg_res.none
        /\ \A v \in AllVars :
               LET kept == AfterZeroRejection(v)
                   r == avg_res.vars[v]
               IN  VarMatrix(v) # <<>> =>
                       /\ r.key
                       /\ r.N_ok <= Len(kept)
                       /\ NoOutliersAsked => r.N_ok = Len(kept)
                       /\ (NoOutliersAsked /\ ~avg_args.use_medians /\ kept # <<>>
                             /\ \A i \in 1..Len(kept) : kept[i] = kept[1]) =>
                              r.avgdata = ACurve(kept[1])

\* the rows as a matrix of rationals
ToRatMatrix(rows) ==
    [i \in 1..Len(rows) |-> [j \in 1..Len(rows[i]) |-> RatOf(rows[i][j])]]

\* the threshold probability claimed for N rows
ClaimedThreshold(n) ==
    Rat(avg_args.reject_outliers.num, avg_args.reject_outliers.den * n)

\* the number of rows that the claimed outlier rejection leaves of the rows
\* after zero rejection: a row goes when any of its entries has a Z-score
\* magnitude (deviation from the column median over the single MAD) above
\* the threshold for reject_outliers / N
ClaimedAccepted(nonzero) ==
    LET bad == { ij[1] : ij \in Outliers(ToRatMatrix(nonzero), "0", TRUE,
                                         ClaimedThreshold(Len(nonzero))) }
    IN  Len(nonzero) - Cardinality(bad)

\* C13: with reject_outliers = p average_trials returns, and the rows
\* accepted for a variable are the rows left by zero rejection, N in number,
\* less every row with an entry whose modified Z-score magnitude exceeds the
\* threshold for p / N (stated for the p / N in PTabulated).
C13_OutlierThresholdBonferroni ==
    (apc = "averaged" /\ avg_args.trials # <<>> /\ ~NoOutliersAsked
       /\ ~avg_args.use_medians) =>
        /\ avg_res.status = "ok"
        /\ ~avg_res.none
        /\ \A v \in AllVars :
               LET nonzero == AfterZeroRejection(v)
               IN  (nonzero # <<>> /\ ClaimedThreshold(Len(nonzero)) \in PTabulated) =>
                       avg_res.vars[v].N_ok = ClaimedAccepted(nonzero)

\* C18: average_trials raises no error; a variable whose rows are all
\* rejected has average None, spread None and count 0, every variable with
\* gathered rows is in the result, and the average is None exactly when
\* the count is 0.
C18_EmptyVariableIsNone ==
    (apc = "averaged" /\ avg_args.trials # <<>>) =>
        /\ avg_res.status = "ok"
        /\ ~avg_res.none
        /\ \A v \in AllVars :
               LET r == avg_res.vars[v]
               IN  /\ r.key <=> VarMatrix(v) # <<>>
                   /\ r.key =>
                          /\ r.avgdata.none <=> r.N_ok = 0
                          /\ r.stddata.none <=> r.N_ok = 0
                          /\ AfterZeroRejection(v) = <<>> => r.N_ok = 0

\* the trial lists that are permutations of the call's: the trials in either
\* order, the cycles of each trial in any order
PermutedTrials ==
    LET t1 == avg_args.trials[1]
        t2 == avg_args.trials[2]
        pairs == { <<[t1 EXCEPT !.cycles = p1], [t2 EXCEPT !.cycles = p2]>> :
                   p1 \in Perms(t1.cycles), p2 \in Perms(t2.cycles) }
    IN  pairs \union { <<q[2], q[1]>> : q \in pairs }

AverageOf(trials) ==
    AverageTrials(trials, avg_args.fp_cycles_only, avg_args.reject_zeros,
                  avg_args.reject_outliers, avg_args.use_medians)

CommonCurve ==
    LET all == CyclesOf(avg_args.trials)
    IN  IF all[1].curve \in CommonCurves THEN all[1].curve ELSE all[2].curve

\* C14: of NCommon cycles of a common curve and one cycle offset by
\* OutlierOffset, average_trials with reject_outliers = 1e-3 rejects exactly
\* the offset cycle: the accepted count is NCommon and the average is the
\* common curve.
C14_OffsetCycleRejected ==
    (apc = "averaged" /\ ~avg_args.use_medians) =>
        /\ avg_res.status = "ok"
        /\ ~avg_res.none
        /\ \A v \in {"LHipAnglesX", "LHipMomentX", "LSoleLength"} :
               /\ avg_res.vars[v].N_ok = NCommon
               /\ avg_res.vars[v].avgdata = ACurve(CommonCurve)

---------------------------------------------------------------------------
(* Claims about the sides of the cycles and the forceplate detector *)

\* the cycles built in the iteration over lstrikes (1) or over rstrikes (2)
\* of a Trial that was constructed: the iteration over lstrikes yields one
\* cycle for each of its windows, the one over rstrikes the cycles after them
CyclesOfIteration(side) ==
    LET nleft == IF Len(lstrikes) < 2 THEN 0 ELSE Len(lstrikes) - 1
    IN  IF side = 1 THEN SubSeq(cycles, 1, nleft)
        ELSE SubSeq(cycles, nleft + 1, Len(cycles))

\* C28: every cycle built from the right-side strike list has context 'R'
\* and a toe-off of the right-side toe-off list, every cycle built from the
\* left-side strike list has context 'L' and a left toe-off, also when both
\* strike lists hold the same frame numbers.
C28_CyclesCarryTheirSide ==
    status = "ok" =>
        /\ \A i \in DOMAIN CyclesOfIteration(1) :
               LET c == CyclesOfIteration(1)[i]
               IN  c.context = "L" /\ c.toeoff + c.offset \in Range(ltoeoffs)
        /\ \A i \in DOMAIN CyclesOfIteration(2) :
               LET c == CyclesOfIteration(2)[i]
               IN  c.context = "R" /\ c.toeoff + c.offset \in Range(rtoeoffs)

\* C29: when the forceplate detector fails with GaitDataError for a trial
\* with at least two strikes on a side, the Trial is still constructed and
\* every cycle has on_forceplate = false.
C29_DetectorFailureTolerated ==
    (status # "new" /\ fp_detect.raises /\ (Len(lstrikes) >= 2 \/ Len(rstrikes) >= 2)) =>
        /\ status = "ok"
        /\ \A i \in DOMAIN cycles : ~cycles[i].on_forceplate

---------------------------------------------------------------------------
(* Claims about the purity of the aggregation *)

\* C25: a call of average_trials leaves every input Trial's state, in
\* particular its normalization cycle, as it was before the call.
C25_AveragingLeavesTrials ==
    [][apc' = "averaged" => norm_cycles' = norm_cycles]_vars

\* average_trials was called for trials of which the first has two cycles
\* and was normalized to the first of them; the call has ended and the trial
\* is normalized to that cycle
C25_Witness ==
    /\ apc = "averaged"
    /\ avg_args.trials # <<>>
    /\ Len(avg_args.trials[1].cycles) = 2
    /\ avg_args.trials[1].cycles[1] # avg_args.trials[1].cycles[2]
    /\ norm_cycles[1] = ANorm(avg_args.trials[1].cycles[1])
    /\ norm_cycles[2] = NoNorm
    /\ avg_res.status = "AttributeError"

\* C27: with outlier rejection enabled the outlier rows are removed before
\* the reduction in both modes, mean/stddev and median/MAD: of NCommon cycles
\* of a common curve and one offset cycle the accepted count is NCommon in
\* either mode.
C27_OutliersRemovedInBothModes ==
    apc = "averaged" =>
        /\ avg_res.status = "ok"
        /\ ~avg_res.none
        /\ \A v \in {"LHipAnglesX", "LHipMomentX", "LSoleLength"} :
               avg_res.vars[v].N_ok = NCommon

\* C30: the reject_zeros given to AvgTrial reaches the averaging: for an
\* AvgTrial asked for with reject_zeros = False, average_trials is entered
\* with reject_zeros = False (and so keeps the curves with exact zeros).
C30_AvgTrialPassesRejectZeros ==
    (apc = "avgtrial" /\ ~avg_args.reject_zeros) =>
        avg_res.call.reject_zeros = avg_args.reject_zeros

---------------------------------------------------------------------------
(* Use of a constructed Trial (src/gaitutils/trial.py): __getitem__ with    *)
(* _get_modelvar, set_norm_cycle and get_cycle.  The trial is the one of    *)
(* the variables meta, cycles; the provider's model data are `source`.      *)

\* the provider's get_model_data is called at most MaxReads times per model
MaxReads == 2
\* the source changes at most MaxVersion times
MaxVersion == 1
\* get_cycle is asked for cycle numbers 0..MaxNcycle
MaxNcycle == 3

Descs == { models_all[i].desc : i \in DOMAIN models_all }

\* the position of a variable among a model's varnames
VarIndex(var) ==
    CHOOSE k \in DOMAIN model_from_var(var).varnames : model_from_var(var).varnames[k] = var

\* the curve of variable var in version v of the source, one value for each
\* frame of the trial
SourceCurve(var, v, length) ==
    [i \in 1..length |-> ((i * i) % 5) + 10 * VarIndex(var) + 100 * v]

\* read_data.get_model_data(source, model): the provider fails (ValueError,
\* c3d.py lines 138-140) or returns the data of the source as it is now
ReadModelData(src, desc) ==
    IF src[desc].fails THEN [raises |-> TRUE, version |-> 0]
    ELSE [raises |-> FALSE, version |-> src[desc].version]

NotStored == [stored |-> FALSE, version |-> 0]

\* the provider is called at every lookup
GetModelvarUncached(md, src, var) ==
    LET desc == model_from_var(var).desc
        got == ReadModelData(src, desc)
    IN  IF got.raises THEN [raises |-> TRUE, read |-> TRUE, models_data |-> md, version |-> 0]
        ELSE [raises |-> FALSE, read |-> TRUE,
              models_data |-> [md EXCEPT ![desc] = [stored |-> TRUE, version |-> got.version]],
              version |-> got.version]

\* Trial._get_modelvar(var) (lines 186-196) on the cache md: whether it
\* raised, whether the provider was called, the cache afterwards and the
\* version of the data returned
GetModelvar(md, src, var) ==
    LET desc == model_from_var(var).desc
        got == ReadModelData(src, desc)
    IN  IF md[desc].stored
        THEN [raises |-> FALSE, read |-> FALSE, models_data |-> md,
              version |-> md[desc].version]
        ELSE IF got.raises
        THEN [raises |-> TRUE, read |-> TRUE, models_data |-> md, version |-> 0]
        ELSE [raises |-> FALSE, read |-> TRUE,
              models_data |-> [md EXCEPT ![desc] = [stored |-> TRUE, version |-> got.version]],
              version |-> got.version]

\* Trial.t: np.arange(self.length)
TrialT(length) == [i \in 1..length |-> Rat(i - 1, 1)]

\* the curve is returned raw although a normalization cycle is set
GetItemDataRaw(norm, curve) ==
    [t |-> TrialT(Len(curve)), data |-> [i \in DOMAIN curve |-> Rat(curve[i], 1)]]

\* lines 139-143: the curve on the trial's frames, or normalized to the
\* normalization cycle
GetItemData(norm, curve) ==
    IF norm.none
    THEN [t |-> TrialT(Len(curve)), data |-> [i \in DOMAIN curve |-> Rat(curve[i], 1)]]
    ELSE Normalize(norm.cycle, curve)

\* Trial.__getitem__(item) for a model variable: "ok" with t and data, or
\* "emg" when _get_modelvar raised ValueError and the lookup goes on as the
\* lookup of an EMG channel (lines 144-149)
GetItemReturn(looked, norm, var, src, length) ==
    IF looked.raises
    THEN [call |-> "getitem", var |-> var, outcome |-> "emg", read |-> looked.read,
          source_version |-> src[model_from_var(var).desc].version]
    ELSE [call |-> "getitem", var |-> var, outcome |-> "ok", read |-> looked.read,
          source_version |-> src[model_from_var(var).desc].version]
         @@ GetItemData(norm, SourceCurve(var, looked.version, length))

GetItem(var) ==
    /\ status = "ok"
    /\ ~(~models_data[model_from_var(var).desc].stored
           /\ reads[model_from_var(var).desc] >= MaxReads)
    /\ models_data' = GetModelvar(models_data, source, var).models_data
    /\ reads' = [reads EXCEPT ![model_from_var(var).desc] =
                    IF GetModelvar(models_data, source, var).read THEN @ + 1 ELSE @]
    /\ ret' = GetItemReturn(GetModelvar(models_data, source, var), normalize, var,
                            source, meta.length)
    /\ UNCHANGED <<normalize, source>>
    /\ UNCHANGED <<trial_vars, cycle_vars, num_vars, stats_vars, viz_vars, del_vars>>

\* the source changes: its data get the next version, and each model can or
\* cannot be read from it
SourceChange ==
    /\ status = "ok"
    /\ \E fails \in [Descs -> BOOLEAN] :
           /\ \A d \in Descs : source[d].version < MaxVersion
           /\ source' = [d \in Descs |->
                            [fails |-> fails[d], version |-> source[d].version + 1]]
    /\ UNCHANGED <<models_data, normalize, reads, ret>>
    /\ UNCHANGED <<trial_vars, cycle_vars, num_vars, stats_vars, viz_vars, del_vars>>

\* arguments of set_norm_cycle: None, a Gaitcycle, or an int
NoneArg == [kind |-> "None"]
CycleArg(c) == [kind |-> "Gaitcycle", cycle |-> c]
IntArg(i) == [kind |-> "int", index |-> i]

\* Trial.set_norm_cycle(cycle) (lines 166-172): an int indexes self.cycles
\* (IndexError beyond the list; a negative int counts from the end), a
\* Gaitcycle is taken as it is, None gives None
SetNormCycleOf(cycs, arg) ==
    IF arg.kind = "int"
    THEN IF arg.index >= Len(cycs) \/ arg.index < -Len(cycs)
         THEN [raises |-> TRUE, normalize |-> NoNorm]
         ELSE [raises |-> FALSE,
               normalize |-> ANorm(cycs[IF arg.index >= 0 THEN arg.index + 1
                                        ELSE Len(cycs) + arg.index + 1])]
    ELSE IF arg.kind = "Gaitcycle" THEN [raises |-> FALSE, normalize |-> ANorm(arg.cycle)]
    ELSE [raises |-> FALSE, normalize |-> NoNorm]

NormArgs ==
    {NoneArg} \cup { CycleArg(cycles[i]) : i \in DOMAIN cycles }
              \cup { IntArg(i) : i \in -1..Len(cycles) }

SetNormCycle ==
    /\ status = "ok"
    /\ \E arg \in NormArgs :
           /\ normalize' = IF SetNormCycleOf(cycles, arg).raises THEN normalize
                           ELSE SetNormCycleOf(cycles, arg).normalize
           /\ ret' = [call |-> "set_norm_cycle", arg |-> arg,
                      raises |-> SetNormCycleOf(cycles, arg).raises]
    /\ UNCHANGED <<models_data, source, reads>>
    /\ UNCHANGED <<trial_vars, cycle_vars, num_vars, stats_vars, viz_vars, del_vars>>

\* context.upper()
Upper(context) ==
    IF context = "l" THEN "L" ELSE IF context = "r" THEN "R" ELSE context

\* the cycles are not filtered by side
GetCycleAnySide(cycs, context, ncycle) ==
    IF ncycle < 1 THEN [raises |-> TRUE]
    ELSE IF Len(cycs) < ncycle THEN [raises |-> TRUE]
    ELSE [raises |-> FALSE, cycle |-> cycs[ncycle]]

\* Trial.get_cycle(context, ncycle) (lines 174-184); raises is GaitDataError
GetCycleOf(cycs, context, ncycle) ==
    LET SameSide(c) == c.context = Upper(context)
    IN  IF ncycle < 1 THEN [raises |-> TRUE]
        ELSE IF Len(SelectSeq(cycs, SameSide)) < ncycle THEN [raises |-> TRUE]
        ELSE [raises |-> FALSE, cycle |-> SelectSeq(cycs, SameSide)[ncycle]]

GetCycle ==
    /\ status = "ok"
    /\ \E context \in {"L", "R", "l", "r"}, ncycle \in 0..MaxNcycle :
           ret' = [call |-> "get_cycle", context |-> context, ncycle |-> ncycle]
                  @@ GetCycleOf(cycles, context, ncycle)
    /\ UNCHANGED <<models_data, normalize, source, reads>>
    /\ UNCHANGED <<trial_vars, cycle_vars, num_vars, stats_vars, viz_vars, del_vars>>

\* the trials in use: each side has no cycle, one or two, from frame 0 on
UseLength == MaxCycleFrame + 1
UseSides == { p \in SidePatterns(MaxOffset) : p.strikes = <<>> \/ p.strikes[1] = MaxOffset }
UseMetas ==
    { [lstrikes   |-> l.strikes, ltoeoffs |-> l.toeoffs,
       rstrikes   |-> r.strikes, rtoeoffs |-> r.toeoffs,
       offset     |-> MaxOffset,
       analograte |-> 3,
       framerate  |-> 2,
       length     |-> UseLength] : l \in UseSides, r \in UseSides }

\* a Trial as its constructor leaves it
Constructed ==
    /\ meta \in UseMetas
    /\ fp_detect = NoFp
    /\ status = "ok"
    /\ lstrikes = meta.lstrikes /\ rstrikes = meta.rstrikes
    /\ ltoeoffs = meta.ltoeoffs /\ rtoeoffs = meta.rtoeoffs
    /\ cycles = TrialOutcome(meta, NoFp).cycles
    /\ err = NoErr
    /\ models_data = [d \in Descs |-> NotStored]
    /\ normalize = NoNorm
    /\ reads = [d \in Descs |-> 0]
    /\ ret = [call |-> "none"]

\* lookups while the source changes
InitCache ==
    /\ Constructed
    /\ source \in [Descs -> [fails : BOOLEAN, version : {0}]]
    /\ NoGaitcycle
    /\ NoNumutils
    /\ NoStats
    /\ NoPlot
    /\ NoDelete

NextCache == \/ \E var \in AllVars : GetItem(var)
             \/ SourceChange

SpecCache == InitCache /\ [][NextCache]_vars

\* lookups, normalization cycles and cycle queries on a readable source
InitUse ==
    /\ Constructed
    /\ source = [d \in Descs |-> [fails |-> FALSE, version |-> 0]]
    /\ NoGaitcycle
    /\ NoNumutils
    /\ NoStats
    /\ NoPlot
    /\ NoDelete

NextUse == \/ \E var \in AllVars : GetItem(var)
           \/ SetNormCycle
           \/ GetCycle

SpecUse == InitUse /\ [][NextUse]_vars


---------------------------------------------------------------------------
(* Claims about the use of a Trial *)

\* C22: over any sequence of lookups the provider's get_model_data is called
\* at most once per model.
C22_AtMostOneReadPerModel ==
    \A d \in Descs : reads[d] <= 1

\* C22 (amended): a lookup of a variable whose model is not stored calls the
\* provider once; a read that succeeds stores the model's data as the source
\* has them then, a read that fails stores nothing.  Once a model is stored
\* the provider is not called for it again and its stored data never change,
\* and every lookup returns the stored data, also after the source changed.
C22_ReadUntilStoredThenNever ==
    [][\A d \in Descs :
          /\ models_data[d].stored =>
                 /\ models_data'[d] = models_data[d]
                 /\ reads'[d] = reads[d]
          /\ (~models_data[d].stored /\ reads'[d] # reads[d]) =>
                 /\ reads'[d] = reads[d] + 1
                 /\ models_data'[d].stored <=> ~source[d].fails
                 /\ models_data'[d].stored => models_data'[d].version = source[d].version
          /\ (ret'.call = "getitem" /\ model_from_var(ret'.var).desc = d) =>
                 /\ ret'.outcome = "ok" <=> models_data'[d].stored
                 /\ ret'.outcome = "ok" =>
                        \A i \in 1..meta.length :
                            ret'.data[i] =
                                Rat(SourceCurve(ret'.var, models_data'[d].version,
                                                meta.length)[i], 1)]_vars

\* a lookup returned a model's stored data, without a call of the provider,
\* after the source had changed
C22_Witness ==
    /\ ret.call = "getitem"
    /\ ret.outcome = "ok"
    /\ ~ret.read
    /\ ret.source_version # models_data[model_from_var(ret.var).desc].version
    /\ reads[model_from_var(ret.var).desc] = 1

\* the normalization cycle that set_norm_cycle(arg) is to set
NormCycleAsked(arg) ==
    IF arg.kind = "None" THEN NoNorm
    ELSE IF arg.kind = "Gaitcycle" THEN ANorm(arg.cycle)
    ELSE ANorm(cycles[arg.index + 1])

\* the samples of a raw curve that lie in the cycle c
CycleSamples(c, curve) == { curve[i] : i \in (c.start + 1)..c.end }

\* C23: after set_norm_cycle(c), with c a Gaitcycle or an index into the
\* cycle list, every lookup up to the next set_norm_cycle returns the
\* 101-point curve normalized to that cycle: on the axis 0..100, from the
\* cycle's first sample to its last, within the range of its samples.  After
\* set_norm_cycle(None), and initially, a lookup returns the raw curve on the
\* frames 0..length-1.
C23_LookupFollowsNormCycle ==
    [][/\ (ret'.call = "set_norm_cycle" /\ ~ret'.raises
              /\ (ret'.arg.kind = "int" => ret'.arg.index >= 0)) =>
              normalize' = NormCycleAsked(ret'.arg)
       /\ ret'.call # "set_norm_cycle" => normalize' = normalize
       /\ (ret'.call = "getitem" /\ ret'.outcome = "ok") =>
              LET raw == SourceCurve(ret'.var, 0, meta.length)
                  c == normalize'.cycle
              IN  IF normalize'.none
                  THEN /\ ret'.t = [i \in 1..meta.length |-> Rat(i - 1, 1)]
                       /\ ret'.data = [i \in 1..meta.length |-> Rat(raw[i], 1)]
                  ELSE /\ ret'.t = [k \in 1..101 |-> Rat(k - 1, 1)]
                       /\ Len(ret'.data) = 101
                       /\ ret'.data[1] = Rat(raw[c.start + 1], 1)
                       /\ ret'.data[101] = Rat(raw[c.end], 1)
                       /\ \A k \in 1..101 :
                              /\ \E v \in CycleSamples(c, raw) :
                                     RatLeq(Rat(v, 1), ret'.data[k])
                              /\ \E v \in CycleSamples(c, raw) :
                                     RatLeq(ret'.data[k], Rat(v, 1))]_vars

\* a lookup returned a curve normalized to the second cycle of the trial
C23_Witness ==
    /\ ret.call = "getitem"
    /\ ret.outcome = "ok"
    /\ Len(cycles) >= 2
    /\ normalize = ANorm(cycles[2])
    /\ normalize # ANorm(cycles[1])
    /\ Len(ret.data) = 101

\* the places in the cycle list of the cycles of the side asked for
SameSidePlaces(context) ==
    { i \in DOMAIN cycles :
        cycles[i].context = (IF context \in {"l", "L"} THEN "L" ELSE "R") }

\* C24: get_cycle(context, n) returns the n-th cycle, in cycle-list order,
\* among the cycles of the side context, compared case-insensitively, for
\* 1 <= n <= number of such cycles; it raises GaitDataError for n < 1 and
\* for n above that number, and never returns a cycle of the other side.
C24_GetCycleNthOfSide ==
    ret.call = "get_cycle" =>
        IF ret.ncycle < 1 \/ ret.ncycle > Cardinality(SameSidePlaces(ret.context))
        THEN ret.raises
        ELSE /\ ~ret.raises
             /\ \E i \in SameSidePlaces(ret.context) :
                    /\ Cardinality({ j \in SameSidePlaces(ret.context) : j < i })
                           = ret.ncycle - 1
                    /\ ret.cycle = cycles[i]

\* the second right cycle was asked for as 'r' and returned, past a left one
C24_Witness ==
    /\ ret.call = "get_cycle"
    /\ ret.context = "r"
    /\ ret.ncycle = 2
    /\ ~ret.raises
    /\ cycles[1].context = "L"
    /\ ret.cycle = cycles[3]
    /\ ret.cycle # cycles[2]


---------------------------------------------------------------------------
(* The cycles argument of the plotters (src/gaitutils/viz/plot_common.py,   *)
(* _handle_cyclespec, and plot_plotly.py, plot_trials).  A dict is a         *)
(* function from its keys to its values.                                     *)

\* cfg.plot.default_cycles: a normalized selection for each variable type
default_cycles == [model |-> "all", emg |-> "forceplate"]

\* the values of the cycles argument: the string 'unnormalized', None, a dict
\* from variable types (or another key) to cycle selections, or something
\* else (another string, a number)
CycleSelections == {"all", "forceplate", "unnormalized"}
DictKeys == {"model", "emg", "foo"}
CyclesArgs ==
    { [kind |-> "str", value |-> "unnormalized"], [kind |-> "None"],
      [kind |-> "str", value |-> "all"], [kind |-> "int", value |-> 1] }
    \cup UNION { { [kind |-> "dict", dict |-> d] : d \in [ks -> CycleSelections] } :
                 ks \in SUBSET DictKeys }

\* default_cycles.copy() updated with the dict d
DictUpdate(defaults, d) ==
    [k \in DOMAIN defaults \cup DOMAIN d |-> IF k \in DOMAIN d THEN d[k] ELSE defaults[k]]

\* _handle_cyclespec(cycles) (plot_common.py, lines 87-102); raises is
\* ValueError('invalid cycle argument')
HandleCyclespec(cyc_spec) ==
    IF cyc_spec.kind = "str" /\ cyc_spec.value = "unnormalized"
    THEN [raises |-> FALSE, cycles |-> [k \in DOMAIN default_cycles |-> "unnormalized"]]
    ELSE IF cyc_spec.kind = "None"
    THEN [raises |-> FALSE, cycles |-> default_cycles]
    ELSE IF cyc_spec.kind = "dict"
    THEN IF DOMAIN cyc_spec.dict \ DOMAIN default_cycles # {}
         THEN [raises |-> TRUE, cycles |-> <<>>]
         ELSE [raises |-> FALSE, cycles |-> DictUpdate(default_cycles, cyc_spec.dict)]
    ELSE [raises |-> TRUE, cycles |-> <<>>]

\* a call of _handle_cyclespec(cycles) by itself: the exception raised or
\* the specification returned; no curve is processed
DoHandleCyclespec ==
    /\ vpc = "args"
    /\ cs_res' = [raises |-> IF HandleCyclespec(cs_args).raises
                             THEN "ValueError" ELSE "none",
                  processed |-> FALSE,
                  cycles |-> HandleCyclespec(cs_args).cycles]
    /\ vpc' = "handled"
    /\ UNCHANGED cs_args
    /\ UNCHANGED <<models_data, normalize, source, reads, ret>>
    /\ UNCHANGED <<trial_vars, cycle_vars, num_vars, stats_vars, del_vars>>

\* plot_trials(trials, layout, model_normaldata, cycles), lines 207-263:
\* GaitDataError('No trials') for an empty trials argument (lines 225-226);
\* otherwise normaldata.read_default_normaldata() (line 240, when no
\* model_normaldata is passed) or normaldata.read_emg_normaldata() (line 242)
\* is called, neither of which normaldata.py defines, so the call raises
\* AttributeError before line 263 hands the cycles argument to
\* _handle_cyclespec and before a trial is touched.  The outcome does not
\* depend on cyc_spec
PlotTrialsOf(has_trials, has_normaldata, cyc_spec) ==
    IF ~has_trials
    THEN [raises |-> "GaitDataError", line |-> 226, processed |-> FALSE]
    ELSE IF ~has_normaldata
    THEN [raises |-> "AttributeError", line |-> 240, processed |-> FALSE]
    ELSE [raises |-> "AttributeError", line |-> 242, processed |-> FALSE]

\* plot_trials for the trial (or for no trial), with or without
\* model_normaldata; the trial is left as it was
PlotTrials ==
    /\ vpc = "args"
    /\ \E has_trials \in BOOLEAN, has_normaldata \in BOOLEAN :
           cs_res' = PlotTrialsOf(has_trials, has_normaldata, cs_args)
    /\ vpc' = "plotted"
    /\ UNCHANGED cs_args
    /\ UNCHANGED <<models_data, normalize, source, reads, ret>>
    /\ UNCHANGED <<trial_vars, cycle_vars, num_vars, stats_vars, del_vars>>

InitPlot ==
    /\ Constructed
    /\ source = [d \in Descs |-> [fails |-> FALSE, version |-> 0]]
    /\ NoGaitcycle
    /\ NoNumutils
    /\ NoStats
    /\ NoDelete
    /\ cs_args \in CyclesArgs
    /\ cs_res = <<>>
    /\ vpc = "args"

NextPlot == DoHandleCyclespec \/ PlotTrials

SpecPlot == InitPlot /\ [][NextPlot]_vars

\* the argument selects 'unnormalized' for one variable type and a
\* normalized selection for another
MixedSpec(cyc_spec) ==
    /\ cyc_spec.kind = "dict"
    /\ \E k1, k2 \in DOMAIN cyc_spec.dict :
           cyc_spec.dict[k1] = "unnormalized" /\ cyc_spec.dict[k2] # "unnormalized"

\* the argument is no cycle specification: not 'unnormalized', None or a
\* dict, or a dict with a key that is no variable type
UnrecognizedSpec(cyc_spec) ==
    \/ cyc_spec.kind = "str" /\ cyc_spec.value # "unnormalized"
    \/ cyc_spec.kind = "int"
    \/ cyc_spec.kind = "dict" /\ ~(DOMAIN cyc_spec.dict \subseteq {"model", "emg"})

\* C21: a cycle specification that selects 'unnormalized' for one variable
\* type and a normalized selection for another, or that is not a recognized
\* specification, is rejected with an error (the ValueError of
\* _handle_cyclespec) before any curve is processed, by _handle_cyclespec
\* and by plot_trials.
C21_MixedOrUnknownSpecRejected ==
    (vpc \in {"handled", "plotted"}
       /\ (MixedSpec(cs_args) \/ UnrecognizedSpec(cs_args))) =>
        cs_res.raises = "ValueError" /\ ~cs_res.processed


---------------------------------------------------------------------------
(* Deleting the c3d files of a session before processing                    *)
(* (src/gaitutils/autoprocess.py, _delete_c3ds).  A file name is a record    *)
(* of its stem and its extension; files is the set of the files that exist.  *)

DelTrials == {"t1", "t2"}
TrialExts == {"c3d", "x1d", "x2d"}
EclipseTypes == {"Static", "Dynamic"}

FileName(stem, ext) == [stem |-> stem, ext |-> ext]

\* sessionutils._enf2other(fname, ext): '.Trial.enf' replaced by '.' + ext
Enf2Other(fname, ext) ==
    IF fname.ext # "Trial.enf"
    THEN [raises |-> TRUE]
    ELSE [raises |-> FALSE, fname |-> FileName(fname.stem, ext)]

\* the c3d file of every enf file passed is removed if it exists, whatever
\* the trial's type and its other files
DeleteC3dsOfAll(enffiles, types, fs) ==
    [raises |-> "none",
     files |-> fs \ { Enf2Other(enffiles[i], "c3d").fname : i \in DOMAIN enffiles }]

\* _delete_c3ds(enffiles), lines 374-398: the files left and the exception
\* raised.  sessionutils.py defines no _filter_to_c3ds, so line 379 raises
\* AttributeError before the loop of lines 380-398 touches a file
DeleteC3dsOf(enffiles, types, fs) ==
    [raises |-> "AttributeError", files |-> fs]

\* the enf files passed: some of the session's trials, each once
EnfLists ==
    { s \in UNION { [1..n -> DelTrials] : n \in 1..Cardinality(DelTrials) } :
        \A i, j \in DOMAIN s : i # j => s[i] # s[j] }

\* a session directory: the enf file of every trial and some of its c3d, x1d
\* and x2d files
SessionFiles ==
    { { FileName(t, "Trial.enf") : t \in DelTrials }
      \cup { FileName(p[1], p[2]) : p \in some } :
      some \in SUBSET (DelTrials \X TrialExts) }

DeleteArgs ==
    { [enffiles |-> [i \in DOMAIN s |-> FileName(s[i], "Trial.enf")],
       types |-> ty, files |-> fs] :
      s \in EnfLists, ty \in [DelTrials -> EclipseTypes], fs \in SessionFiles }

DeleteC3ds ==
    /\ dpc = "args"
    /\ files' = DeleteC3dsOf(del_args.enffiles, del_args.types, files).files
    /\ dpc' = IF DeleteC3dsOf(del_args.enffiles, del_args.types, files).raises = "none"
              THEN "deleted"
              ELSE DeleteC3dsOf(del_args.enffiles, del_args.types, files).raises
    /\ UNCHANGED del_args
    /\ UNCHANGED <<trial_vars, cycle_vars, num_vars, stats_vars, use_vars, viz_vars>>

InitDelete ==
    /\ NoTrial
    /\ NoGaitcycle
    /\ NoNumutils
    /\ NoStats
    /\ NoTrialUse
    /\ NoPlot
    /\ del_args \in DeleteArgs
    /\ files = del_args.files
    /\ dpc = "args"

NextDelete == DeleteC3ds

SpecDelete == InitDelete /\ [][NextDelete]_vars

\* the trial of stem t was passed, is not Static, and had its c3d, x1d and
\* x2d files when _delete_c3ds was called
MayDelete(t) ==
    /\ \E i \in DOMAIN del_args.enffiles : del_args.enffiles[i].stem = t
    /\ del_args.types[t] # "Static"
    /\ \A ext \in TrialExts : FileName(t, ext) \in del_args.files

====
